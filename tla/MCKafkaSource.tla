---------------------------- MODULE MCKafkaSource ----------------------------
(* Instances of KafkaSource for TLC.                                        *)
EXTENDS KafkaSource

CONSTANTS p1, p2

\* Every kind of failure but an unreadable consumer position.
PositionReadable == FaultKinds \ {"position"}
=============================================================================
