---------------------------- MODULE Conversation ----------------------------
(***************************************************************************)
(* What a stored conversation promises to the next provider request: it    *)
(* grows only at its end, a tool call is never stored without its result,  *)
(* and the two are stored in one step, so that no reader of the store and  *)
(* no crash can see the one without the other (axio/context.py,            *)
(* ContextStore.append_many).  Rounds number the requests of a run; an     *)
(* exchange is stored at most once for each.                               *)
(***************************************************************************)
EXTENDS Naturals, Sequences

CONSTANTS Calls,     \* the tool-call ids a turn may use
          Outcomes,  \* what a result block may say of its call
          Rounds     \* the iterations of a run, a set of naturals

VARIABLE log

Plain == [kind : {"input"}, at : {0}]
           \cup [kind : {"notice", "answer"}, at : Rounds]

Request(r, cs) == [kind |-> "request", at |-> r, calls |-> cs]

Reply(r, f) == [kind |-> "reply", at |-> r, of |-> f]

\* The rounds that have already stored what the model said in them.
Spoken == {log[i].at : i \in {j \in 1..Len(log) :
                                log[j].kind \in {"answer", "request"}}}

Init == log = << >>

\* A message that asks for no tool.
Say == \E m \in Plain :
         /\ m.kind = "answer" => m.at \notin Spoken
         /\ log' = Append(log, m)

\* A turn that called tools, stored with a result for each of its calls.
Exchange == \E r \in Rounds, cs \in (SUBSET Calls) \ {{}} :
              /\ \A s \in Spoken : s < r
              /\ \E f \in [cs -> Outcomes] :
                   log' = log \o <<Request(r, cs), Reply(r, f)>>

Next == Say \/ Exchange

Spec == Init /\ [][Next]_log

=============================================================================
