------------------------------ MODULE MCSinks -------------------------------
(***************************************************************************)
(* Model checking of the sinks: ParallelSink, which decides when a sink    *)
(* acks, and LandingTable, what the Postgres aggregate sink keeps and      *)
(* deletes.  They share no state, so it is enough that one of them runs    *)
(* while the other is at its end.                                          *)
(***************************************************************************)
EXTENDS ParallelSink, LandingTable

CONSTANTS a, b, c

ThreeStreams == {a, b, c}
ByParity == [r \in 1 .. MaxRow |-> IF r % 2 = 0 THEN "w2" ELSE "w1"]

sinksVars == <<vars, landingVars>>

\* Streams that failed before their first batch.
SinkEnded ==
    /\ copies = [e \in Epochs |-> 0] /\ released = [e \in Epochs |-> FALSE]
    /\ finished = {} /\ seenFinalizers = {}
    /\ delivered = [i \in Inputs |-> {}]
    /\ task = [i \in Inputs |-> "err"]
    /\ hand = delivered /\ due = delivered
    /\ parent = "err" /\ parentDue = {} /\ acks = copies

\* The last process has written all rows before its first Marker, and its epochs
\* timed out; the processes before it wrote nothing.
LandingEnded ==
    /\ saved = 0 /\ life = MaxLife /\ failed = FALSE /\ overtaken = FALSE /\ ahead = {}
    /\ landing = [r \in Rows |-> [label |-> 0, by |-> life]]
    /\ tally = [r \in Rows |-> 1]
    /\ pos = MaxRow /\ mail = <<>> /\ riding = <<>>
    /\ snaps = [e \in Tags |-> MaxRow] /\ minted = MaxTag /\ open = NoTag
    /\ queue = [w \in Writers |-> <<>>] /\ hold = [w \in Writers |-> Idle]
    /\ label = [w \in Writers |-> MaxTag] /\ purgedTo = 0 /\ reported = {}

SinksInit == (Init /\ LandingEnded) \/ (SinkEnded /\ LandingInit)

SinksNext ==
    \/ Next /\ UNCHANGED landingVars
    \/ LandingNext /\ UNCHANGED vars

SinksSpec == SinksInit /\ [][SinksNext]_sinksVars /\ Fairness
=============================================================================
