---------------------------- MODULE CopilotChat ----------------------------
(***************************************************************************)
(* CopilotChat.tsx: the conversation with the copilot, the request behind  *)
(* each turn, the actions an answer makes the console execute, and the     *)
(* choice of a model, which the list of models fetched on mount overrides. *)
(* The chat stays mounted when it is closed: its answers still come.       *)
(***************************************************************************)
EXTENDS Subsequence, Sequences, SequencesExt

CONSTANTS
    Prompts,        \* texts typed or offered as quick prompts
    Answerable,     \* the actions that an answer may ask for
    Models,         \* models the back end may have
    Offered,        \* App's availableModels, which the pickers show
    DefaultModel,   \* 'llama3:latest'
    ModelFetches,   \* how often the list of models is asked for: twice under
                    \* React's StrictMode
    MaxMessages,    \* bound on the conversation
    MaxClicks       \* bound on the clicks on action cards

\* The back end passes on any JSON that the language model wrote: "other" is a
\* type the console does not know, or none; target says whether a tab or a
\* domain is given. (That it is a text, as the console expects, is left out.)
ActionTypes == {"NAVIGATE", "EVALUATE", "CLEAR_FILTERS", "REFRESH", "other"}
NoAction == [type |-> "none", target |-> FALSE]
ChatActions == [type : ActionTypes, target : BOOLEAN] \cup {NoAction}

\* The actions that executeAction has a callback for.
Executable(action) ==
    \/ action.type \in {"CLEAR_FILTERS", "REFRESH"}
    \/ action.type \in {"NAVIGATE", "EVALUATE"} /\ action.target

NoText == "no text"

ASSUME CopilotChatAssumption ==
    /\ Answerable \subseteq ChatActions
    /\ DefaultModel \in Offered /\ NoText \notin Prompts
    /\ ModelFetches \in Nat /\ MaxMessages \in Nat /\ MaxClicks \in Nat

VARIABLES
    chatOpen,       \* isOpen
    messages,       \* [sender, action]: who wrote, and the action of its card
    inputMsg,
    chatLoading,
    chatRequests,   \* requests in flight: prompt, length of the history sent,
                    \* model and forced offline mode
    executed,       \* the actions executed on an answer, in order
    clicks,         \* the actions executed again from their cards
    isOnline,
    selectedModel, offlineOnly,     \* App's
    modelsRequested     \* requests for the models that have not been answered

chatVars == <<chatOpen, messages, inputMsg, chatLoading, chatRequests, executed, clicks, isOnline,
              selectedModel, offlineOnly, modelsRequested>>

Message == [sender : {"user", "ai"}, action : ChatActions]
Says(sender, action) == [sender |-> sender, action |-> action]

ChatInit ==
    /\ chatOpen = FALSE
    /\ messages = <<Says("ai", NoAction)>>
    /\ inputMsg = NoText
    /\ chatLoading = FALSE
    /\ chatRequests = {}
    /\ executed = <<>> /\ clicks = <<>>
    /\ isOnline = TRUE
    /\ selectedModel = DefaultModel
    /\ offlineOnly = FALSE
    /\ modelsRequested = ModelFetches

-----------------------------------------------------------------------------
ToggleChat ==
    /\ chatOpen' = ~chatOpen
    /\ UNCHANGED <<messages, inputMsg, chatLoading, chatRequests, executed, clicks, isOnline,
                   selectedModel, offlineOnly, modelsRequested>>

\* The input is disabled while an answer is awaited.
TypeMessage(p) ==
    /\ chatOpen /\ ~chatLoading
    /\ inputMsg' = p
    /\ UNCHANGED <<chatOpen, messages, chatLoading, chatRequests, executed, clicks, isOnline,
                   selectedModel, offlineOnly, modelsRequested>>

Post(p) ==
    /\ messages' = Append(messages, Says("user", NoAction))
    /\ chatLoading' = TRUE
    /\ chatRequests' = chatRequests \cup
         {[prompt |-> p, history |-> Len(messages), model |-> selectedModel,
           offline |-> offlineOnly]}
    /\ UNCHANGED <<chatOpen, executed, clicks, isOnline, selectedModel, offlineOnly,
                   modelsRequested>>

\* handleSend with the text of the input
SendInput ==
    /\ chatOpen /\ inputMsg # NoText /\ ~chatLoading
    /\ Len(messages) < MaxMessages
    /\ Post(inputMsg)
    /\ inputMsg' = NoText

\* Mutant: handleSend does not look whether an answer is awaited.
QuickPromptAnyTime(p) ==
    /\ chatOpen /\ Len(messages) < MaxMessages
    /\ Post(p)
    /\ UNCHANGED inputMsg

\* The quick prompts stay enabled: handleSend ignores them while loading.
QuickPrompt(p) ==
    /\ chatOpen /\ ~chatLoading
    /\ Len(messages) < MaxMessages
    /\ Post(p)
    /\ UNCHANGED inputMsg

\* executeAction ignores the other actions without a word.
Executing(done, action) == IF Executable(action) THEN Append(done, action) ELSE done

\* An answer that is ok: its text, the card "Action Executed" of any action it
\* brings, and the action itself.
ChatAnswered(r) ==
    /\ \E action \in Answerable \cup {NoAction}, online \in BOOLEAN :
         /\ messages' = Append(messages, Says("ai", action))
         /\ executed' = Executing(executed, action)
         /\ isOnline' = online
    /\ chatRequests' = chatRequests \ {r}
    /\ chatLoading' = FALSE
    /\ UNCHANGED <<chatOpen, inputMsg, clicks, selectedModel, offlineOnly, modelsRequested>>

\* An answer that is not ok, or none: an apology takes its place.
ChatFails(r) ==
    /\ messages' = Append(messages, Says("ai", NoAction))
    /\ chatRequests' = chatRequests \ {r}
    /\ chatLoading' = FALSE
    /\ UNCHANGED <<chatOpen, inputMsg, executed, clicks, isOnline, selectedModel, offlineOnly,
                   modelsRequested>>

\* "Inspect Domain" on the card of an evaluation executes its action again.
ClickCard(i) ==
    /\ chatOpen /\ Len(clicks) < MaxClicks
    /\ messages[i].action.type = "EVALUATE"
    /\ clicks' = Executing(clicks, messages[i].action)
    /\ UNCHANGED <<chatOpen, messages, inputMsg, chatLoading, chatRequests, executed, isOnline,
                   selectedModel, offlineOnly, modelsRequested>>

\* fetchModels: the default model if the back end has it, else its first one,
\* whatever was chosen meanwhile and whether or not the pickers offer it.
ModelsAnswered ==
    /\ modelsRequested > 0
    /\ modelsRequested' = modelsRequested - 1
    /\ \/ \E found \in SUBSET Models, online \in BOOLEAN :
            /\ isOnline' = online
            /\ selectedModel' \in IF DefaultModel \in found THEN {DefaultModel}
                                  ELSE IF found # {} THEN found ELSE {selectedModel}
       \/ isOnline' = FALSE /\ UNCHANGED selectedModel
       \/ UNCHANGED <<isOnline, selectedModel>>
    /\ UNCHANGED <<chatOpen, messages, inputMsg, chatLoading, chatRequests, executed, clicks,
                   offlineOnly>>

\* The pickers of the chat and of the settings
ChooseModel(m) ==
    /\ selectedModel' = m
    /\ UNCHANGED <<chatOpen, messages, inputMsg, chatLoading, chatRequests, executed, clicks,
                   isOnline, offlineOnly, modelsRequested>>

ToggleOfflineOnly ==
    /\ offlineOnly' = ~offlineOnly
    /\ UNCHANGED <<chatOpen, messages, inputMsg, chatLoading, chatRequests, executed, clicks,
                   isOnline, selectedModel, modelsRequested>>

ChatNext ==
    \/ ToggleChat \/ SendInput \/ ModelsAnswered \/ ToggleOfflineOnly
    \/ \E p \in Prompts : TypeMessage(p) \/ QuickPrompt(p)
    \/ \E r \in chatRequests : ChatAnswered(r) \/ ChatFails(r)
    \/ \E m \in Offered : ChooseModel(m)
    \/ \E i \in DOMAIN messages : ClickCard(i)

ChatSpec == ChatInit /\ [][ChatNext]_chatVars

-----------------------------------------------------------------------------
ChatRequest ==
    [prompt : Prompts, history : Nat, model : Models \cup Offered, offline : BOOLEAN]

ChatTypeOK ==
    /\ messages \in Seq(Message) /\ executed \in Seq({a \in ChatActions : Executable(a)})
    /\ inputMsg \in Prompts \cup {NoText}
    /\ chatRequests \subseteq ChatRequest
    /\ selectedModel \in Models \cup Offered
    /\ {chatOpen, chatLoading, isOnline, offlineOnly} \subseteq BOOLEAN
    /\ modelsRequested \in 0 .. ModelFetches /\ clicks \in Seq(ChatActions)

CardsExecuted == KeptAt(messages, {i \in DOMAIN messages : Executable(messages[i].action)})

\* However prompts, answers, failures and closing interleave, user and copilot
\* take turns; one request is in flight exactly while the last turn is the
\* user's, and its history is every turn before that one; and the actions
\* executed are those of the cards shown that the console can execute, each
\* once and in their order. (A card is shown for the others as well.)
TurnsAlternate ==
    /\ \A i \in DOMAIN messages : messages[i].sender = IF i % 2 = 1 THEN "ai" ELSE "user"
    /\ chatLoading = (Len(messages) % 2 = 0)
    /\ chatLoading = (chatRequests # {})
    /\ \A r, s \in chatRequests : r = s /\ r.history = Len(messages) - 1
    /\ executed = [i \in DOMAIN CardsExecuted |-> CardsExecuted[i].action]
=============================================================================
