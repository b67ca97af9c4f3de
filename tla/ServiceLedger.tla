---------------------------- MODULE ServiceLedger ----------------------------
(***************************************************************************)
(* What the HTTP service promises about its answers, whatever runs at the  *)
(* same time: a request is answered at most once; a request that is        *)
(* answered is from then on counted, once; and a metrics report is the     *)
(* exact tally of the requests this process answered before it.            *)
(***************************************************************************)
EXTENDS ServiceMetrics

VARIABLES
  answered,  \* the entries of the requests this process has answered
  reply      \* request |-> its answers: [entry, report]

vars == <<answered, reply>>

Init == answered = {} /\ reply = [r \in Requests |-> {}]

EntriesOf(r) ==
  [request: {r}, method: Methods, path: Paths, tools: SUBSET Tools,
   status: Statuses, signals: SUBSET Signals]

\* Answer a request and count it.  "report" is the tally it may carry.
Answer(r) ==
  /\ reply[r] = {}
  /\ \E e \in EntriesOf(r), report \in {{}, {Report(answered)}} :
       /\ answered' = answered \cup {e}
       /\ reply' = [reply EXCEPT ![r] = {[entry |-> {e}, report |-> report]}]

\* A request the service cannot even take apart is answered, not counted.
Fail(r) ==
  /\ reply[r] = {}
  /\ reply' = [reply EXCEPT ![r] = {[entry |-> {}, report |-> {}]}]
  /\ UNCHANGED answered

\* The counters are those of a process: a new one starts from nothing.
Restart == answered' = {} /\ UNCHANGED reply

Next == Restart \/ \E r \in Requests : Answer(r) \/ Fail(r)

Spec == Init /\ [][Next]_vars

=============================================================================
