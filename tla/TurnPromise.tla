---------------------------- MODULE TurnPromise ----------------------------
(***************************************************************************)
(* What the workspace promises about a turn, whatever happens to the       *)
(* process, the socket and Hermes: a queued turn sends its prompt at most  *)
(* once, only while it is open, and the outcome it ends with is final.     *)
(***************************************************************************)
EXTENDS Naturals

CONSTANT Works

VARIABLES outcome, prompts

Ends == {"complete", "failed", "interrupted"}

Init ==
  /\ outcome = [w \in Works |-> "absent"]
  /\ prompts = [w \in Works |-> 0]

\* Some turns are queued.
Queue(new) ==
  /\ \A w \in new : outcome[w] = "absent"
  /\ outcome' = [w \in Works |-> IF w \in new THEN "open" ELSE outcome[w]]
  /\ UNCHANGED prompts

\* The prompt of an open turn goes out.
Issue(w) ==
  /\ outcome[w] = "open" /\ prompts[w] = 0
  /\ prompts' = [prompts EXCEPT ![w] = 1]
  /\ UNCHANGED outcome

\* Some open turns end.
Settle(done) ==
  /\ \A w \in done : outcome[w] = "open"
  /\ outcome' \in [Works -> {"absent", "open"} \cup Ends]
  /\ \A w \in Works : IF w \in done THEN outcome'[w] \in Ends
                                    ELSE outcome'[w] = outcome[w]
  /\ UNCHANGED prompts

Next ==
  \/ \E ws \in SUBSET Works : Queue(ws) \/ Settle(ws)
  \/ \E w \in Works : Issue(w)

Spec == Init /\ [][Next]_<<outcome, prompts>>
=============================================================================
