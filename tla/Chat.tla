--------------------------------- MODULE Chat ---------------------------------
(***************************************************************************)
(* One chat: its messages, the turns of the assistant that answer them,    *)
(* and the usage events that the model's calls are charged by.  Turns of   *)
(* one chat, and of several devices, are in flight together.               *)
(***************************************************************************)
EXTENDS Integers, Sequences, FiniteSets, SequencesExt

CONSTANTS
  Turns,             \* messages sent by the user
  None,
  ContextLength,     \* CHAT_CONTEXT_LENGTH
  MaxCalls           \* bound: model calls of a turn

VARIABLES
  chat,              \* "none", "titled" while it is being created, "open", "deleted"
  messages,          \* of the chat, in the order of their creation
  turn,              \* where each turn is
  context,           \* what a turn has read
  calls,             \* model calls of each turn, those that report their usage
  usage,             \* a call's usage that is not yet logged (currentNodeUsage)
  unsaved,           \* usage events on their way to the database
  charged,           \* usage events of each turn
  refused,           \* history: usage events the database refused
  text,              \* a turn has streamed tokens
  broken             \* history: turns whose stream broke

vars == <<chat, messages, turn, context, calls, usage, unsaved, charged, refused, text, broken>>
agentVars == <<calls, usage, unsaved, charged, refused, text, broken>>
ledger == <<charged, refused>>

Init ==
  /\ chat = "none"
  /\ messages = <<>>
  /\ turn = [t \in Turns |-> "idle"]
  /\ context = [t \in Turns |-> <<>>]
  /\ calls = [t \in Turns |-> 0]
  /\ usage = {} /\ text = {} /\ broken = {}
  /\ unsaved = [t \in Turns |-> 0]
  /\ charged = [t \in Turns |-> 0]
  /\ refused = [t \in Turns |-> 0]

At(t, pc) == turn[t] = pc
Goto(t, pc) == turn' = [turn EXCEPT ![t] = pc]

-----------------------------------------------------------------------------
(* logUsage: the event is written behind the back of the turn, which never   *)
(* learns whether it was.                                                    *)

LogUsage(t) == unsaved' = [unsaved EXCEPT ![t] = @ + 1]

\* The event of a title names no chat.
NamesChat(t) == turn[t] \notin {"titled", "starting", "started"}

\* The row of a deleted chat cannot be referred to any more, and any insert may fail.
SaveUsage(t) ==
  /\ unsaved[t] > 0
  /\ unsaved' = [unsaved EXCEPT ![t] = @ - 1]
  /\ \/ /\ NamesChat(t) => chat = "open"
        /\ charged' = [charged EXCEPT ![t] = @ + 1]
        /\ UNCHANGED refused
     \/ refused' = [refused EXCEPT ![t] = @ + 1] /\ UNCHANGED charged
  /\ UNCHANGED <<chat, messages, turn, context, calls, usage, text, broken>>

-----------------------------------------------------------------------------
(* startChat: a title, whose failure yields 'New Chat', the row, and the     *)
(* first message.  The process may die in between.                           *)

Title(t) ==
  /\ chat = "none" /\ At(t, "idle")
  /\ chat' = "titled"
  /\ Goto(t, "titled")
  /\ \/ calls' = [calls EXCEPT ![t] = @ + 1] /\ LogUsage(t)
     \/ UNCHANGED <<calls, unsaved>>
  /\ UNCHANGED <<messages, context, usage, ledger, text, broken>>

CreateChat(t) ==
  /\ At(t, "titled")
  /\ chat' = "open"
  /\ Goto(t, "starting")
  /\ UNCHANGED <<messages, context, agentVars>>

\* The first message is answered by no turn.
SaveFirst(t) ==
  /\ At(t, "starting")
  /\ messages' = IF chat = "open" THEN Append(messages, [by |-> "user", turn |-> t]) ELSE messages
  /\ Goto(t, "started")
  /\ UNCHANGED <<chat, context, agentVars>>

\* The messages of a deleted chat lose their chat.
DeleteChat ==
  /\ chat = "open"
  /\ chat' = "deleted"
  /\ messages' = <<>>
  /\ UNCHANGED <<turn, context, agentVars>>

-----------------------------------------------------------------------------
(* sendMessageStream *)

\* A client learns of a chat from what startChat returns.
Find(t) ==
  /\ chat = "open" /\ At(t, "idle") /\ \A u \in Turns : ~At(u, "starting")
  /\ Goto(t, "found")
  /\ UNCHANGED <<chat, messages, context, agentVars>>

\* The message of a turn whose chat is gone cannot be saved.
SaveMessage(t) ==
  /\ At(t, "found")
  /\ \/ /\ chat = "open"
        /\ messages' = Append(messages, [by |-> "user", turn |-> t])
        /\ Goto(t, "reading")
     \/ chat = "deleted" /\ Goto(t, "done") /\ UNCHANGED messages
  /\ UNCHANGED <<chat, context, agentVars>>

Newest(s, n) == SubSeq(s, IF Len(s) > n THEN Len(s) - n + 1 ELSE 1, Len(s))

\* getMessagesWithCount; when it fails the client has seen TYPING and nothing more.
ReadContext(t) ==
  /\ At(t, "reading")
  /\ \/ /\ context' = [context EXCEPT ![t] = Newest(messages, ContextLength)]
        /\ Goto(t, "asking")
     \/ Goto(t, "done") /\ UNCHANGED context
  /\ UNCHANGED <<chat, messages, agentVars>>

\* An empty context is answered without the model.
AnswerNothing(t) ==
  /\ At(t, "asking") /\ context[t] = <<>>
  /\ Goto(t, "saving")
  /\ text' = text \cup {t}
  /\ UNCHANGED <<chat, messages, context, calls, usage, unsaved, ledger, broken>>

\* A model node of the agent: chunks with text or a request for tools, the last of
\* which carries the usage of the call.
CallModel(t) ==
  /\ \/ At(t, "asking") /\ context[t] # <<>>
     \/ At(t, "tools")
  /\ calls[t] < MaxCalls
  /\ calls' = [calls EXCEPT ![t] = @ + 1]
  /\ usage' = usage \cup {t}
  /\ \E S \in {text, text \cup {t}} : text' = S
  /\ Goto(t, "called")
  /\ UNCHANGED <<chat, messages, context, unsaved, ledger, broken>>

\* What is current is logged, if there is any.
Flush(t) == IF t \in usage THEN LogUsage(t) ELSE UNCHANGED unsaved

\* Mutant: the usage stays current after it was logged.
KeptUsage(t) == usage
FlushedUsage(t) == usage \ {t}

\* A message of a tool: the first one after a model node logs its usage.
RunTool(t) ==
  /\ turn[t] \in {"called", "tools"}
  /\ Flush(t)
  /\ usage' = FlushedUsage(t)
  /\ Goto(t, "tools")
  /\ UNCHANGED <<chat, messages, context, calls, ledger, text, broken>>

FinishStream(t) ==
  /\ At(t, "called")
  /\ Flush(t)
  /\ usage' = usage \ {t}
  /\ Goto(t, "saving")
  /\ UNCHANGED <<chat, messages, context, calls, ledger, text, broken>>

\* What was streamed is the answer, or else an apology.
BreakStream(t) ==
  /\ \/ turn[t] \in {"tools", "called"}
     \/ At(t, "asking") /\ context[t] # <<>>
  /\ broken' = broken \cup {t}
  /\ text' = text \cup {t}
  /\ Goto(t, "saving")
  /\ UNCHANGED <<chat, messages, context, calls, usage, unsaved, ledger>>

\* The answer is saved if its chat still exists, STREAM_END is sent in any case,
\* and cards are made of an answer that has text.
SaveAnswer(t) ==
  /\ At(t, "saving")
  /\ messages' = IF chat = "open" THEN Append(messages, [by |-> "bot", turn |-> t]) ELSE messages
  /\ Goto(t, IF chat = "open" /\ t \in text THEN "cards" ELSE "done")
  /\ UNCHANGED <<chat, context, agentVars>>

\* One more call of the model, unless the user turned cards off; a failed one is dropped.
MakeCards(t) ==
  /\ At(t, "cards")
  /\ Goto(t, "done")
  /\ \/ UNCHANGED <<calls, unsaved>>
     \/ calls' = [calls EXCEPT ![t] = @ + 1] /\ LogUsage(t)
  /\ UNCHANGED <<chat, messages, context, usage, ledger, text, broken>>

Next ==
  \/ DeleteChat
  \/ \E t \in Turns :
       \/ SaveUsage(t)
       \/ Title(t) \/ CreateChat(t) \/ SaveFirst(t) \/ Find(t) \/ SaveMessage(t) \/ ReadContext(t)
       \/ AnswerNothing(t) \/ CallModel(t) \/ RunTool(t) \/ FinishStream(t) \/ BreakStream(t)
       \/ SaveAnswer(t) \/ MakeCards(t)

Spec == Init /\ [][Next]_vars

-----------------------------------------------------------------------------
\* Every call of the model is charged, once.  Never more often than it was made,
\* whatever is still on its way; and once the turn is over and nothing is on its way
\* any more, exactly as often, but for the events the database refused and for the
\* call whose usage a breaking stream takes with it (agent.service.ts:250).
UsageCounted ==
  \A t \in Turns :
    /\ charged[t] + unsaved[t] <= calls[t]
    /\ turn[t] \in {"started", "done"} /\ unsaved[t] = 0
         => calls[t] - charged[t] <= refused[t] + IF t \in broken THEN 1 ELSE 0
=============================================================================
