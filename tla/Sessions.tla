------------------------------ MODULE Sessions ------------------------------
(***************************************************************************)
(* What ig learns from the sessions of an agent (analytics/learn.rs): the  *)
(* commands that failed and were then corrected.  A session is a sequence  *)
(* of [use, command] and [result, failed, text], where use and result are  *)
(* the id of the call; text is the sort of error it speaks of, or "none".  *)
(***************************************************************************)
EXTENDS Integers, SequencesExt, FiniteSetsExt, Functions

IsUse(block) == "use" \in DOMAIN block
UsesOf(session) == SelectSeq(session, IsUse)
Answered(session) == {session[i].result : i \in {i \in DOMAIN session : ~IsUse(session[i])}}

\* Mutant: results are given out in the order they came.
LastResultInOrder(session, id) ==
    LET results == SelectSeq(session, LAMBDA b : ~IsUse(b))
        uses == SelectSeq(UsesOf(session), LAMBDA b : b.use \in Answered(session)) IN
    results[CHOOSE i \in DOMAIN uses : uses[i].use = id]

\* A later result of the same call replaces an earlier one.
LastResult(session, id) ==
    session[Max({i \in DOMAIN session : ~IsUse(session[i]) /\ session[i].result = id})]

\* A call without a result counts as one that went well.
Outcome(session, id) ==
    IF id \notin Answered(session) THEN [failed |-> FALSE, text |-> "none"]
    ELSE LET r == LastResult(session, id) IN [failed |-> r.failed \/ r.text /= "none", text |-> r.text]

ExtractCommands(session) ==
    LET uses == UsesOf(session) IN
    [i \in DOMAIN uses |-> Outcome(session, uses[i].use) @@ [command |-> uses[i].command]]

ClassifyError(text) == IF text = "none" THEN "other" ELSE text

\* How often each sort of error was followed by a command that went well.
DetectCorrections(commands) ==
    LET corrected == {i \in 1 .. Len(commands) - 1 :
                        /\ commands[i].failed /\ ~commands[i + 1].failed
                        /\ commands[i].command /= "" /\ commands[i + 1].command /= ""}
        sort(i) == ClassifyError(commands[i].text) IN
    [e \in {sort(i) : i \in corrected} |->
        LET those == {i \in corrected : sort(i) = e} IN
        [count |-> Cardinality(those),
         wrong |-> commands[Min(those)].command, right |-> commands[Min(those) + 1].command]]

\* The sessions are put one behind the other.
CollectPatterns(sessions) ==
    DetectCorrections(FlattenSeq([i \in DOMAIN sessions |-> ExtractCommands(sessions[i])]))
=============================================================================
