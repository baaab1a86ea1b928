--------------------------- MODULE ModelBoundary ---------------------------
(***************************************************************************)
(* The callbacks around the agent's model (agent/callbacks.py) and the     *)
(* guardrails they screen with: what the user is shown of each turn, and   *)
(* what the audit trail says of it.                                        *)
(*                                                                         *)
(* The agent framework (external) runs a turn: before_model, the model,    *)
(* after_model, again after each tool call, then after_agent.  A response  *)
(* of before_model ends the turn without a call to the model or to         *)
(* after_model; an exception ends it without after_agent.  The session     *)
(* keeps what its user said and what the callbacks put into its state.     *)
(***************************************************************************)
EXTENDS Naturals

CONSTANTS Session, TextId,
          Attacks,       \* texts the local heuristic has a pattern for
          MaxTurns,      \* bound: turns begun, over all sessions
          MaxCalls       \* bound: model calls of a turn

ASSUME BoundsAssumption == MaxTurns \in Nat /\ MaxCalls \in Nat \ {0}

\* A text is the set of the texts it joins; a guardrail may mask it.
Text == [ids : SUBSET TextId, masked : BOOLEAN]

Plain(ids) == [ids |-> ids, masked |-> FALSE]

NoText == Plain({})

\* What the user reads in place of a withheld text.
Reason == Plain({"reason"})

-----------------------------------------------------------------------------
(* The guardrails.                                                         *)

MatchStates == {"NO_MATCH_FOUND", "MATCH_FOUND", "FILTER_MATCH_STATE_UNSPECIFIED", "absent"}

InvocationResults == {"SUCCESS", "PARTIAL", "FAILURE", "absent"}

\* What Model Armor may answer: its filters' state, whether all of them ran, and
\* whether a de-identified text came with it.
ArmorAnswers == [match : MatchStates, ran : InvocationResults, deidentified : BOOLEAN]

Verdict(allowed, safe) == [allowed |-> allowed, safe |-> safe]

\* No de-identified text, or an empty one, leaves the original.
Deidentified(answer, text) ==
    [text EXCEPT !.masked = @ \/ (answer.deidentified /\ text.ids # {})]

\* mutant: whatever is no match is allowed
ParseNoMatch(answer, text) == Verdict(answer.match # "MATCH_FOUND", Deidentified(answer, text))

\* Allowed only on a complete, clean screen.
Parse(answer, text) ==
    Verdict(/\ answer.match = "NO_MATCH_FOUND"
            /\ answer.ran = "SUCCESS", Deidentified(answer, text))

Heuristic(text) == Verdict(text.ids \cap Attacks = {}, text)

\* Every screen a guardrail may come to, with a history of whether its filters all
\* ran and found nothing.  The guardrails left out always raise.
Screens(guardrail, text) ==
    CASE guardrail = "off"         -> {[verdict |-> Verdict(TRUE, text), clean |-> TRUE]}
      [] guardrail = "local"       -> {[verdict |-> Heuristic(text),
                                        clean |-> text.ids \cap Attacks = {}]}
      [] guardrail = "model_armor" ->
            {[verdict |-> Parse(a, text),
              clean |-> a.match = "NO_MATCH_FOUND" /\ a.ran = "SUCCESS"] : a \in ArmorAnswers}
      [] OTHER                     -> {}

\* Model Armor is called over the network.
CanRaise(guardrail) == guardrail \notin {"off", "local"}

-----------------------------------------------------------------------------
VARIABLES
    turn,       \* the turn each session is in, NoTurn between turns
    memory,     \* the session: what its user said, and the callbacks' state
    trail,      \* the audit records of turns
    begun,      \* turns begun
    went        \* history: how each turn went

boundary == <<turn, memory, trail, begun, went>>

\* What the model answers with: a text, calls of the tool, or both.
Answer == [text : Text, call : BOOLEAN]

NoAnswer == [text |-> NoText, call |-> FALSE]

NoTurn == [step |-> "none", nr |-> 0, at |-> NoAnswer, calls |-> 0]

\* What the last screen of each kind left of its text, in a turn: one or none.
Left(prompt, response) == [prompt |-> prompt, response |-> response]

Steps == {"none", "before_model", "model", "after_model", "tool", "after_agent"}

BoundaryTypeOK ==
    /\ turn \in [Session -> [step : Steps, nr : 0..MaxTurns, at : Answer, calls : 0..MaxCalls]]
    /\ memory \in [Session -> [heard : SUBSET TextId, prompt : Text, response : Text,
                               blocked : BOOLEAN]]
    /\ trail \subseteq [nr : 1..MaxTurns, decision : {"allowed", "blocked"},
                        prompt : Text, response : Text]
    /\ begun \in 0..MaxTurns
    /\ went \in [1..begun -> [session : Session, blocked : BOOLEAN,
                              shown : SUBSET (Text \cup {Reason}), cleared : SUBSET Text,
                              left : [prompt : SUBSET Text, response : SUBSET Text],
                              ended : {"running", "failed", "audited"}]]
    /\ \A s \in Session :
          /\ (turn[s].step = "none") <=> (turn[s].nr = 0)
          /\ turn[s].nr \in 0..begun

BoundaryInit ==
    /\ turn = [s \in Session |-> NoTurn]
    /\ memory = [s \in Session |-> [heard |-> {}, prompt |-> NoText, response |-> NoText,
                                    blocked |-> FALSE]]
    /\ trail = {} /\ begun = 0
    /\ went = [n \in 1..0 |-> NoTurn]

Goto(s, step, answer, calls) ==
    turn' = [turn EXCEPT ![s] = [step |-> step, nr |-> @.nr, at |-> answer, calls |-> calls]]

\* _set_state, of the three keys of a session.
Remember(s, prompt, response, blocked) ==
    memory' = [memory EXCEPT ![s] = [heard |-> @.heard, prompt |-> prompt,
                                     response |-> response, blocked |-> blocked]]

\* History: what a step of turn n shows its user, of that the part a clean screen
\* left, what its screens have left by now, whether it blocks, and whether the turn
\* ends by it.
Note(n, blocked, shown, cleared, left, ended) ==
    went' = [went EXCEPT ![n] =
                [session |-> @.session, blocked |-> @.blocked \/ blocked,
                 shown |-> @.shown \cup shown, cleared |-> @.cleared \cup cleared,
                 left |-> left, ended |-> ended]]

\* The user says something in a session whose last turn is over.
StartTurn(s) ==
    /\ turn[s].step = "none" /\ begun < MaxTurns
    /\ begun' = begun + 1
    /\ turn' = [turn EXCEPT ![s] =
                  [step |-> "before_model", nr |-> begun + 1, at |-> NoAnswer, calls |-> 0]]
    /\ \E i \in TextId :
          memory' = [memory EXCEPT ![s] = [heard |-> @.heard \cup {i}, prompt |-> @.prompt,
                                           response |-> @.response, blocked |-> @.blocked]]
    /\ went' = [n \in 1..(begun + 1) |->
                  IF n \in 1..begun THEN went[n]
                  ELSE [session |-> s, blocked |-> FALSE, shown |-> {}, cleared |-> {},
                        left |-> Left({}, {}), ended |-> "running"]]
    /\ UNCHANGED trail

\* An exception: the framework leaves the turn, and nobody audits it.
FailTurn(s) ==
    /\ turn' = [turn EXCEPT ![s] = NoTurn]
    /\ Note(turn[s].nr, FALSE, {}, {}, went[turn[s].nr].left, "failed")
    /\ UNCHANGED <<memory, trail, begun>>

\* mutant: a refused prompt leaves no mark for the end of the turn
BeforeModelUnmarked(s, guardrail) ==
    /\ turn[s].step = "before_model"
    /\ \E screen \in Screens(guardrail, Plain(memory[s].heard)) :
          LET passed == screen.verdict.allowed
          IN  /\ Remember(s, screen.verdict.safe, memory[s].response, memory[s].blocked)
              /\ Goto(s, IF passed THEN "model" ELSE "after_agent", NoAnswer, turn[s].calls)
              /\ Note(turn[s].nr, ~passed, IF passed THEN {} ELSE {Reason}, {},
                      Left({screen.verdict.safe}, went[turn[s].nr].left.response), "running")
    /\ UNCHANGED <<trail, begun>>

\* mutant: the prompt is remembered as it came
BeforeModelUnscreened(s, guardrail) ==
    /\ turn[s].step = "before_model"
    /\ \E screen \in Screens(guardrail, Plain(memory[s].heard)) :
          LET passed == screen.verdict.allowed
          IN  /\ Remember(s, Plain(memory[s].heard), memory[s].response, memory[s].blocked \/ ~passed)
              /\ Goto(s, IF passed THEN "model" ELSE "after_agent", NoAnswer, turn[s].calls)
              /\ Note(turn[s].nr, ~passed, IF passed THEN {} ELSE {Reason}, {},
                      Left({screen.verdict.safe}, went[turn[s].nr].left.response), "running")
    /\ UNCHANGED <<trail, begun>>

\* before_model_callback screens all the user has said in the session.  The request
\* goes on as it came, not as the guardrail left it; a refused one is answered with
\* the reason.
BeforeModel(s, guardrail) ==
    /\ turn[s].step = "before_model"
    /\ \E screen \in Screens(guardrail, Plain(memory[s].heard)) :
          LET passed == screen.verdict.allowed
          IN  /\ Remember(s, screen.verdict.safe, memory[s].response, memory[s].blocked \/ ~passed)
              /\ Goto(s, IF passed THEN "model" ELSE "after_agent", NoAnswer, turn[s].calls)
              /\ Note(turn[s].nr, ~passed, IF passed THEN {} ELSE {Reason}, {},
                      Left({screen.verdict.safe}, went[turn[s].nr].left.response), "running")
    /\ UNCHANGED <<trail, begun>>

\* The model answers with a text or with none, and may call the review tool with it.
Model(s) ==
    /\ turn[s].step = "model"
    /\ \E ids \in {{i} : i \in TextId} \cup {{}}, call \in BOOLEAN :
          /\ call => turn[s].calls + 1 < MaxCalls
          /\ Goto(s, "after_model", [text |-> Plain(ids), call |-> call], turn[s].calls + 1)
    /\ UNCHANGED <<memory, trail, begun, went>>

\* mutant: a masked response is recorded masked and shown as it came
ReplyUnmasked(verdict, text) == IF verdict.allowed THEN text ELSE Reason

Reply(verdict, text) == IF verdict.allowed THEN verdict.safe ELSE Reason

\* after_model_callback: a refused response is replaced by the reason, a masked one by
\* its masked text.  Either replaces the whole response, a call of the tool included.
AfterModel(s, guardrail) ==
    /\ turn[s].step = "after_model"
    /\ \E screen \in Screens(guardrail, turn[s].at.text) :
          LET passed == screen.verdict.allowed
              safe   == screen.verdict.safe
              stands == passed /\ safe = turn[s].at.text
          IN  /\ Remember(s, memory[s].prompt, safe, memory[s].blocked \/ ~passed)
              /\ Goto(s, IF stands /\ turn[s].at.call THEN "tool" ELSE "after_agent",
                      NoAnswer, turn[s].calls)
              /\ Note(turn[s].nr, ~passed, {Reply(screen.verdict, turn[s].at.text)},
                      IF screen.clean THEN {safe} ELSE {},
                      Left(went[turn[s].nr].left.prompt, {safe}), "running")
    /\ UNCHANGED <<trail, begun>>

\* The tool's result goes back to the model, past before_model again.
Tool(s) ==
    /\ turn[s].step = "tool"
    /\ Goto(s, "before_model", NoAnswer, turn[s].calls)
    /\ UNCHANGED <<memory, trail, begun, went>>

Record(s) ==
    [nr |-> turn[s].nr, decision |-> IF memory[s].blocked THEN "blocked" ELSE "allowed",
     prompt |-> memory[s].prompt, response |-> memory[s].response]

\* after_agent_callback: one record of the turn, out of the session's state, which
\* stays as it is.
AfterAgent(s) ==
    /\ turn[s].step = "after_agent"
    /\ trail' = trail \cup {Record(s)}
    /\ turn' = [turn EXCEPT ![s] = NoTurn]
    /\ Note(turn[s].nr, FALSE, {}, {}, went[turn[s].nr].left, "audited")
    /\ UNCHANGED <<memory, begun>>

-----------------------------------------------------------------------------
Turns == 1..begun

\* Nothing of the model's reaches the user but what the guardrail's filters all ran
\* on and found nothing in, as the guardrail left it (callbacks.py 139-152,
\* model_armor_guardrail.py 134): not on a partial run, an unknown state, or around
\* the mask.
ShownWasScreened == \A n \in Turns : went[n].shown \subseteq went[n].cleared \cup {Reason}

\* A record that says "allowed" is never of a turn that was blocked, and one that
\* says "blocked" is of a session where some turn was, this one or an earlier
\* (callbacks.py 129-130, 144-145, 156-160).
BlockedIsRecorded ==
    \A r \in trail :
        IF r.decision = "allowed" THEN ~went[r.nr].blocked
        ELSE \E n \in 1..r.nr : went[n].blocked /\ went[n].session = went[r.nr].session

\* An audit record says of its turn what happened in it: blocked if and only if
\* something of this turn was (callbacks.py 155, "Write one WORM audit record for
\* the agent turn").
RecordTellsItsTurn ==
    \A r \in trail : (r.decision = "blocked") <=> went[r.nr].blocked

\* What the earlier turns of the session of turn n left of their responses.
LeftEarlier(n) ==
    UNION {went[m].left.response : m \in {k \in 1..(n - 1) : went[k].session = went[n].session}}

\* A record holds what the guardrail left and never what it masked: of the prompt, what
\* the last screen of this very turn left; of the response, likewise, and only in a
\* turn that had none, for its prompt was refused, what an earlier turn of the same
\* session left (callbacks.py 14-15, 64-72, 126-127, 140-142, 161-162).
RecordsHoldScreenedText ==
    \A r \in trail :
        LET left == went[r.nr].left
        IN  /\ left.prompt = {r.prompt}
            /\ \/ left.response = {r.response}
               \/ /\ left.response = {} /\ went[r.nr].blocked
                  /\ r.response \in LeftEarlier(r.nr) \cup {NoText}
=============================================================================
