----------------------------- MODULE AgentLoop -----------------------------
(***************************************************************************)
(* The tool-use loop, praxia/agent/autonomous.py: the model is asked, the  *)
(* tools it picks are invoked one by one, their results join the           *)
(* transcript, and it is asked again, at most MaxSteps times.  The model,  *)
(* and what a handler returns or raises, are external and arbitrary.       *)
(***************************************************************************)
EXTENDS Integers, Sequences

CONSTANTS
    Tool,        \* names of the registered tools
    FinalAnswer, \* the tool that is always registered
    Stranger,    \* a name no tool has
    Text,        \* what the model may say
    Blank,       \* the empty text
    Odd,         \* an argument that is no text: a number, a list
    Null,        \* None
    Malformed,   \* arguments the handler does not take, or no object
    Failure,     \* "[agent error] LLM failed: ..."
    GaveUp,      \* "(agent stopped: max_steps reached ...)"
    MaxSteps,
    MaxCalls,    \* bound on the tool calls of one turn
    History      \* the earlier turns handed in

ASSUME LoopAssumption ==
    /\ FinalAnswer \in Tool /\ Stranger \notin Tool
    /\ MaxSteps \in Nat /\ MaxCalls \in Nat
    /\ Odd \notin Text \cup {Blank, Failure, GaveUp} /\ Null \notin Text \cup {Blank, Odd}

VARIABLES
    phase,     \* "off", "asking", "working", "returned"
    messages,  \* the transcript: who speaks, and the ids of the calls made or answered
    step,
    todo,      \* tool calls of this turn not yet invoked
    short,     \* short_circuit_text
    result     \* final_text and stopped_reason

loopVars == <<phase, messages, step, todo, short, result>>

Saying == Text \cup {Blank}
Outcome == Saying \cup {Odd, Failure, GaveUp}
Argument == Saying \cup {Odd, Null, Malformed}

(* Arguments matter where they decide something: those of final_answer. *)
Call == [name : {FinalAnswer}, arg : Argument]
          \cup [name : (Tool \ {FinalAnswer}) \cup {Stranger}, arg : {Null}]

Pending == [id : Nat \X Nat, name : Tool \cup {Stranger}, arg : Argument]

Message(role, calls) == [role |-> role, calls |-> calls]

(* Earlier turns come as text: what was asked and what was answered. *)
ASSUME HistoryAssumption ==
    History \in Seq({Message("user", <<>>), Message("assistant", <<>>)})

LoopTypeOK ==
    /\ phase \in {"off", "asking", "working", "returned"}
    /\ step \in 0 .. MaxSteps /\ (phase = "working" => step < MaxSteps)
    /\ todo \in Seq(Pending)
    /\ short \in Saying \cup {Odd, Null}
    /\ result \in [text : Outcome, reason : {"completed", "error", "max_steps"}]

LoopInit ==
    /\ phase = "off" /\ messages = <<>> /\ step = 0 /\ todo = <<>> /\ short = Null
    /\ result = [text |-> Blank, reason |-> "completed"]

-----------------------------------------------------------------------------
(* run(): the system prompt, the history and the prompt. *)
Begin ==
    /\ phase' = "asking"
    /\ messages' = <<Message("system", <<>>)>> \o History \o <<Message("user", <<>>)>>
    /\ step' = 0 /\ todo' = <<>> /\ short' = Null
    /\ result' = [text |-> Blank, reason |-> "completed"]

Return(text, reason) ==
    /\ phase' = "returned"
    /\ result' = [text |-> text, reason |-> reason]

Asked == phase = "asking" /\ step < MaxSteps

(* llm.complete raises. *)
AskFails ==
    /\ Asked
    /\ Return(Failure, "error")
    /\ UNCHANGED <<messages, step, todo, short>>

(* No tool calls: the text is the answer. *)
AskSays(text) ==
    /\ Asked
    /\ Return(text, "completed")
    /\ step' = step + 1
    /\ UNCHANGED <<messages, todo, short>>

AskCalls(calls) ==
    /\ Asked /\ calls # <<>>
    /\ messages' = Append(messages,
                          Message("assistant", [i \in 1 .. Len(calls) |-> <<step, i>>]))
    /\ todo' = [i \in 1 .. Len(calls) |->
                   [id |-> <<step, i>>, name |-> calls[i].name, arg |-> calls[i].arg]]
    /\ short' = Null
    /\ phase' = "working"
    /\ UNCHANGED <<step, result>>

(* _invoke_tool: whether the trace of a call may be ok. *)
MayBeOk(call, ok) ==
    CASE call.name = Stranger    -> ~ok
      [] call.name = FinalAnswer -> ok = (call.arg # Malformed)
      [] OTHER                   -> TRUE

(* The tool message that answers the call now invoked, well or badly. *)
Answered == Append(messages, Message("tool", <<Head(todo).id>>))

(* Mutant: an unknown tool is skipped without a tool message. *)
Invoke_SkipsUnknown ==
    /\ phase = "working" /\ todo # <<>>
    /\ messages' = IF Head(todo).name = Stranger THEN messages ELSE Answered
    /\ \E ok \in BOOLEAN :
          /\ MayBeOk(Head(todo), ok)
          /\ short' = IF ok /\ Head(todo).name = FinalAnswer THEN Head(todo).arg ELSE short
    /\ todo' = Tail(todo)
    /\ UNCHANGED <<phase, step, result>>

Invoke ==
    /\ phase = "working" /\ todo # <<>>
    /\ messages' = Answered
    /\ \E ok \in BOOLEAN :
          /\ MayBeOk(Head(todo), ok)
          /\ short' = IF ok /\ Head(todo).name = FinalAnswer THEN Head(todo).arg ELSE short
    /\ todo' = Tail(todo)
    /\ UNCHANGED <<phase, step, result>>

(* All calls are answered; final_answer(None) does not end the loop. *)
EndTurn ==
    /\ phase = "working" /\ todo = <<>>
    /\ step' = step + 1
    /\ IF short # Null
         THEN Return(short, "completed")
         ELSE phase' = "asking" /\ UNCHANGED result
    /\ UNCHANGED <<messages, todo, short>>

Exhausted ==
    /\ phase = "asking" /\ step = MaxSteps
    /\ Return(GaveUp, "max_steps")
    /\ UNCHANGED <<messages, step, todo, short>>

Turns == UNION {[1 .. n -> Call] : n \in 1 .. MaxCalls}

LoopNext ==
    \/ AskFails
    \/ \E text \in Saying : AskSays(text)
    \/ \E calls \in Turns : AskCalls(calls)
    \/ Invoke \/ EndTurn \/ Exhausted

-----------------------------------------------------------------------------
(* Whenever the model is asked, each of its earlier tool calls is followed *)
(* at once by its results, one per call, in order and under the calls'     *)
(* ids, and no result stands elsewhere: a provider rejects the request     *)
(* otherwise, and every later one with it.  Unknown tools, refused         *)
(* arguments and handlers that raise are answered like the others.         *)
CallsAnswered ==
    phase = "asking" =>
        LET IsCall(i) == messages[i].role = "assistant" /\ messages[i].calls # <<>>
            Results(i) == {j \in i + 1 .. i + Len(messages[i].calls) :
                              j <= Len(messages)
                              /\ messages[j] = Message("tool", <<messages[i].calls[j - i]>>)} IN
        /\ \A i \in 1 .. Len(messages) :
              IsCall(i) => Results(i) = i + 1 .. i + Len(messages[i].calls)
        /\ \A j \in 1 .. Len(messages) :
              messages[j].role = "tool" =>
                  \E i \in 1 .. j - 1 : IsCall(i) /\ j \in Results(i)
=============================================================================
