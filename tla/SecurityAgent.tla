---------------------------- MODULE SecurityAgent ----------------------------
(***************************************************************************)
(* The security agent of the API (services/gemini_agent.rs): it sends the  *)
(* conversation to the model, runs the tools that the answer calls, one    *)
(* after the other, gives the model what they returned, and ends with the  *)
(* first answer that calls none.                                           *)
(***************************************************************************)
EXTENDS Integers, Sequences, FiniteSets, SequencesExt

CONSTANTS
    None,
    Answers,    \* of the model: [calls, texts], the parts that are calls and texts;
                \* a call is [name, package], a text the sequence of its lines
    Outcomes,   \* what a tool may return: [ok, findings], those with an id and a severity
    MaxSteps

AnswersAssumption ==
    /\ MaxSteps \in Nat \ {0}
    /\ \A answer \in Answers :
          answer.calls \in Seq(ToSet(answer.calls)) /\ None \notin ToSet(answer.calls)
    /\ \A outcome \in Outcomes : outcome.findings \in Seq(ToSet(outcome.findings))

VARIABLES
    phase,         \* "asking", "calling", "reporting" or "ended"
    step,          \* step_num
    calls_left,    \* the calls of the answer that have not run
    responses,     \* what those returned that have
    conversation,
    taken,         \* steps: [step, call, result] or [step, text]
    analyzed,      \* packages_analyzed
    found,         \* vulnerabilities_found
    result

vars == <<phase, step, calls_left, responses, conversation, taken, analyzed, found, result>>

\* The lines of a text that advise something: those of a list with a word of
\* advice, and those that are numbered with two digits (the mark is looked for
\* behind the second byte).  A line that begins with a round bullet, of three
\* bytes, cannot be cut after the second: the request panics.
ExtractRecommendations(lines) ==
    SelectSeq(lines, LAMBDA line :
        \/ line.mark \in {"dash", "star"} /\ line.advises
        \/ line.mark = "two digits")
Panics(lines) == \E i \in DOMAIN lines : lines[i].mark = "bullet" /\ lines[i].advises

Ran == {i \in DOMAIN taken : taken[i].call # None}
FunctionCalls == Cardinality(Ran)

Init ==
    /\ phase = "asking" /\ step = 1
    /\ calls_left = <<>> /\ responses = <<>>
    /\ conversation = <<[role |-> "user", told |-> <<>>]>>
    /\ taken = <<>> /\ analyzed = <<>> /\ found = <<>> /\ result = None

Incomplete ==
    [final |-> "incomplete", calls |-> FunctionCalls, recommendations |-> <<>>, report |-> FALSE]

\* The loop is left after the last step.
Continue ==
    /\ step' = step + 1
    /\ IF step < MaxSteps
       THEN phase' = "asking" /\ UNCHANGED result
       ELSE phase' = "ended" /\ result' = Incomplete

CallGemini(answer, stop) ==
    LET calls == answer.calls
        texts == answer.texts
    IN  /\ phase = "asking"
        /\ conversation' = Append(conversation, [role |-> "model", calls |-> calls])
        /\ IF calls # <<>>
           THEN /\ phase' = "calling" /\ calls_left' = calls
                /\ UNCHANGED <<step, taken, result>>
           ELSE IF texts # <<>>
           THEN /\ taken' = Append(taken, [step |-> step, call |-> None, text |-> Last(texts)])
                /\ IF Panics(Last(texts))
                   THEN phase' = "ended" /\ result' = [final |-> "panic"]
                   ELSE phase' = "reporting" /\ UNCHANGED result
                /\ UNCHANGED <<step, calls_left>>
           ELSE /\ IF stop THEN phase' = "ended" /\ result' = Incomplete /\ UNCHANGED step ELSE Continue
                /\ UNCHANGED <<calls_left, taken>>
        /\ UNCHANGED <<responses, analyzed, found>>

GeminiFails ==
    /\ phase = "asking"
    /\ phase' = "ended" /\ result' = [final |-> "error"]
    /\ UNCHANGED <<step, calls_left, responses, conversation, taken, analyzed, found>>

\* What a tool returned, for the model to be told.
\* Told as it would be if only what succeeded were told
ToldIfFine(call, outcome) ==
    IF outcome.ok THEN Append(responses, [name |-> call.name, result |-> outcome]) ELSE responses
Told(call, outcome) == Append(responses, [name |-> call.name, result |-> outcome])

\* A tool that fails returns its error.  The package of a call is noted once,
\* and what get_vulnerabilities returns is kept.
RunTool(outcome) ==
    LET call == Head(calls_left)
        told == Told(call, outcome)
        more == Tail(calls_left) # <<>>
    IN  /\ phase = "calling"
        /\ analyzed' = IF call.package \in {None} \cup ToSet(analyzed) THEN analyzed
                       ELSE Append(analyzed, call.package)
        /\ found' = IF call.name = "get_vulnerabilities" /\ outcome.ok
                    THEN found \o [i \in DOMAIN outcome.findings |->
                                      [finding |-> outcome.findings[i], package |-> call.package]]
                    ELSE found
        /\ taken' = Append(taken, [step |-> step, call |-> call, result |-> outcome])
        /\ calls_left' = Tail(calls_left)
        /\ IF more
           THEN responses' = told /\ UNCHANGED <<phase, step, conversation, result>>
           ELSE /\ responses' = <<>>
                /\ conversation' = Append(conversation, [role |-> "user", told |-> told])
                /\ step' = step + 1
                /\ phase' = (IF step < MaxSteps THEN "asking" ELSE "ended")
                /\ result' = IF step < MaxSteps THEN result ELSE [Incomplete EXCEPT !.calls = @ + 1]

\* The report that the model makes of the answer may fail: the answer stands.
GenerateStructuredReport(made) ==
    /\ phase = "reporting"
    /\ phase' = "ended"
    /\ result' = [final |-> "text", calls |-> FunctionCalls, report |-> made,
                  recommendations |-> ExtractRecommendations(Last(taken).text)]
    /\ UNCHANGED <<step, calls_left, responses, conversation, taken, analyzed, found>>

Next ==
    \/ \E answer \in Answers, stop \in BOOLEAN : CallGemini(answer, stop)
    \/ GeminiFails
    \/ \E outcome \in Outcomes : RunTool(outcome)
    \/ \E made \in BOOLEAN : GenerateStructuredReport(made)

-----------------------------------------------------------------------------
\* The calls of the vulnerability tool that it answered, and how many findings
\* those before step n returned.
Answered == {i \in Ran : taken[i].call.name = "get_vulnerabilities" /\ taken[i].result.ok}
FoundBefore(n) ==
    Cardinality(UNION {{i} \X DOMAIN taken[i].result.findings : i \in {j \in Answered : j < n}})

\* The model is answered every call it makes, by name and in order, before it
\* is asked again; the result counts the calls that ran, names their packages
\* once each and holds what the vulnerability tool returned.
CallsAnswered ==
    /\ \A i \in DOMAIN conversation :
          conversation[i].role = "model" /\ conversation[i].calls # <<>> /\ i < Len(conversation) =>
              LET called == conversation[i].calls
                  told == conversation[i + 1].told
              IN  /\ conversation[i + 1].role = "user"
                  /\ Len(told) = Len(called)
                  /\ \A k \in DOMAIN told : told[k].name = called[k].name
    /\ phase = "asking" => Last(conversation).role = "user" \/ Last(conversation).calls = <<>>
    /\ phase = "ended" /\ result # None /\ result.final \in {"text", "incomplete"} =>
          result.calls = FunctionCalls
    /\ ToSet(analyzed) = {taken[i].call.package : i \in Ran} \ {None}
    /\ \A i, j \in DOMAIN analyzed : i # j => analyzed[i] # analyzed[j]
    /\ Len(found) = FoundBefore(Len(taken) + 1)
    /\ \A i \in Answered : \A j \in DOMAIN taken[i].result.findings :
          found[FoundBefore(i) + j].finding = taken[i].result.findings[j]
=============================================================================
