------------------------------ MODULE Console ------------------------------
(***************************************************************************)
(* packages/console: the local page on which the owner answers the prompts  *)
(* of the assistant's tools.  A prompt belongs to one tool call and is       *)
(* settled once: by a click, by its timer, or because the console stops.    *)
(***************************************************************************)

CONSTANT Calls    \* identities of tool calls

VARIABLES prompt,    \* what became of each call's prompt
          waiters,   \* the prompts the page still lists
          accepted,  \* the approving clicks the page answered "ok" to
          stopped

consoleVars == <<prompt, waiters, accepted, stopped>>

ConsoleInit ==
  /\ prompt = [c \in Calls |-> "none"]
  /\ waiters = {} /\ accepted = {}
  /\ stopped = FALSE

\* A promise takes its first value only.
Settled(c, answer) == [prompt EXCEPT ![c] = IF @ = "waiting" THEN answer ELSE @]

\* A prompt raised after the console has gone is denied at once.
Ask(c) ==
  /\ prompt' = [prompt EXCEPT ![c] = IF stopped THEN "denied" ELSE "waiting"]
  /\ waiters' = IF stopped THEN waiters ELSE waiters \cup {c}
  /\ UNCHANGED <<accepted, stopped>>

\* The click: a prompt no longer listed is answered "no such pending request".
Resolve(c, approved) ==
  /\ ~stopped
  /\ c \in waiters /\ waiters' = waiters \ {c}
  /\ prompt' = Settled(c, IF approved THEN "approved" ELSE "denied")
  /\ accepted' = IF approved THEN accepted \cup {c} ELSE accepted
  /\ UNCHANGED stopped

\* Mutated: the timer settles the promise and leaves the prompt on the page.
TimeOutStillListed(c) ==
  /\ c \in waiters /\ prompt[c] = "waiting"
  /\ prompt' = Settled(c, "denied")
  /\ UNCHANGED <<waiters, accepted, stopped>>

\* Nobody answered: the prompt is taken off the page and denied.
TimeOut(c) ==
  /\ c \in waiters /\ waiters' = waiters \ {c}
  /\ prompt' = Settled(c, "denied")
  /\ UNCHANGED <<accepted, stopped>>

\* Mutated: the waiters are dropped without an answer.
StopSilently ==
  /\ ~stopped /\ stopped' = TRUE
  /\ waiters' = {}
  /\ UNCHANGED <<prompt, accepted>>

\* Everybody who waits is denied.
Stop ==
  /\ ~stopped /\ stopped' = TRUE
  /\ prompt' = [c \in Calls |-> IF c \in waiters THEN Settled(c, "denied")[c] ELSE prompt[c]]
  /\ waiters' = {}
  /\ UNCHANGED accepted

---------------------------------------------------------------------------

\* What the page told the owner is what the tool was told: an approval the page
\* accepted counts, and one that came after the timer or the shutdown was refused
\* (ask's timeout against /api/resolve).
AnswersAreHonest == \A c \in Calls : c \in accepted <=> prompt[c] = "approved"

\* No tool waits for the owner for ever (the timer, and stop).
EveryPromptEnds == \A c \in Calls : prompt[c] = "waiting" ~> prompt[c] # "waiting"

=============================================================================
