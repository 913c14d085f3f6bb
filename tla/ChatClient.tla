----------------------------- MODULE ChatClient -----------------------------
(***************************************************************************)
(* The browser page of the chat (static/chat.js) against POST /v1/chat.    *)
(* The page keeps conversations in memory and in sessionStorage, sends the *)
(* recent turns of the active one along with a message, and applies the    *)
(* answer when it arrives, by which time the user may have selected        *)
(* another conversation or started one.  The service checks the history    *)
(* before anything else.  A turn is its role and its length.               *)
(***************************************************************************)
EXTENDS Naturals, Sequences, FiniteSetsExt

CONSTANTS
  Sizes,              \* lengths of messages and replies, cut to 4000 characters
  MAX_TURNS,          \* turns a conversation keeps
  MAX_CONTEXT_MESSAGES,
  MAX_CONTEXT_CHARS,  \* also the bounds of the service's validator
  MaxConversations,   \* conversations sessionStorage keeps
  MaxSends, MaxReloads, MaxSwitches, \* what the user does (bounds)
  None

ASSUME ClientConstants ==
  /\ Sizes \subseteq Nat \ {0}
  /\ {MAX_TURNS, MAX_CONTEXT_MESSAGES, MAX_CONTEXT_CHARS, MaxConversations} \subseteq Nat \ {0}
  /\ {MaxSends, MaxReloads, MaxSwitches} \subseteq Nat
  /\ MAX_TURNS % 2 = 0 /\ MAX_CONTEXT_MESSAGES % 2 = 0 \* whole exchanges
  /\ None \notin Nat

VARIABLES
  page,          \* "loading", "listing" repositories, "ready", "signedOut" or "left"
  conversations, \* newest first: the work item, which is its id too, and the turns
  activeId,
  busy,
  turnLimitReached,
  notice,        \* the kind of message above the composer
  saved,         \* sessionStorage
  flight,        \* the request in flight, with its answer once there is one
  created,       \* work items the service has created
  used           \* what the user has done so far

vars == <<page, conversations, activeId, busy, turnLimitReached, notice, saved,
          flight, created, used>>

----------------------------------------------------------------------------
(* Conversations.                                                          *)

Turn == [role : {"user", "assistant"}, size : Sizes]

\* Mutant: the newest conversation.
newestConversation == IF conversations = <<>> THEN None ELSE 1

\* The position of the active conversation, None without one.
activeConversation ==
  IF \E k \in DOMAIN conversations : conversations[k].id = activeId
  THEN CHOOSE k \in DOMAIN conversations :
         /\ conversations[k].id = activeId
         /\ \A j \in 1..(k - 1) : conversations[j].id # activeId
  ELSE None

\* The last n of the turns.
Newest(turns, n) == SubSeq(turns, IF Len(turns) > n THEN Len(turns) - n + 1 ELSE 1, Len(turns))

Total(turns) ==
  LET sum[n \in 0..Len(turns)] == IF n = 0 THEN 0 ELSE sum[n - 1] + turns[n].size
  IN sum[Len(turns)]

\* The most recent turns, without the oldest of them while they are too long.
contextHistory(k) ==
  LET selected == IF k = None THEN <<>>
                  ELSE Newest(conversations[k].turns, MAX_CONTEXT_MESSAGES)
      Fits(n) == Total(Newest(selected, n)) <= MAX_CONTEXT_CHARS
  IN Newest(selected, CHOOSE n \in 0..Len(selected) :
                      Fits(n) /\ \A m \in (n + 1)..Len(selected) : ~ Fits(m))

\* Mutant: the question of the oldest exchange goes, its reply stays.
trimOdd(turns) == Newest(turns, MAX_TURNS - 1)

trim(turns) == Newest(turns, MAX_TURNS)

----------------------------------------------------------------------------
(* sessionStorage, which may refuse to store.                              *)

Stored(cs, id) ==
  [conversations |-> SubSeq(cs, 1, Min({Len(cs), MaxConversations})), activeId |-> id]

saveSession(cs, id) ==
  \/ saved' = Stored(cs, id) /\ UNCHANGED notice
  \/ UNCHANGED saved /\ notice' = "unsaved"

readSession ==
  /\ conversations' = [k \in 1..Len(saved.conversations) |->
       [saved.conversations[k] EXCEPT !.turns = trim(@)]]
  /\ activeId' = saved.activeId

----------------------------------------------------------------------------
(* Loading the page.                                                       *)

\* The page is opened anew: memory is lost, an answer on its way too.
Reload ==
  /\ used.reloads < MaxReloads
  /\ used' = [used EXCEPT !.reloads = @ + 1]
  /\ page' = "loading"
  /\ readSession
  /\ busy' = FALSE /\ turnLimitReached' = FALSE /\ notice' = None /\ flight' = None
  /\ UNCHANGED <<saved, created>>

\* initialize: GET /v1/status, then the repositories while the page can
\* already be used, then the saved conversation or a new one.
initialize ==
  /\ \/ page = "loading" /\ page' \in {"listing", "left"} /\ UNCHANGED <<activeId, notice>>
     \/ page = "loading" /\ page' = "signedOut" /\ notice' = "unavailable"
          /\ UNCHANGED activeId
  /\ UNCHANGED <<conversations, busy, turnLimitReached, saved, flight, created, used>>

\* Whatever becomes of the list, initialize goes on; startConversation
\* clears the notice.
loadRepositories ==
  /\ page = "listing"
  /\ page' \in {"ready", "left"}
  /\ \/ activeConversation = None /\ activeId' = None /\ notice' = None
     \/ activeConversation # None /\ UNCHANGED activeId /\ notice' \in {notice, "repositories"}
  /\ UNCHANGED <<conversations, busy, turnLimitReached, saved, flight, created, used>>

SignedIn == page \in {"listing", "ready"}

----------------------------------------------------------------------------
(* What the user does.                                                     *)

\* A conversation is picked or a new one begun, with or without a request in
\* flight: neither control is disabled while the page is busy.
Switched ==
  /\ used.switches < MaxSwitches
  /\ used' = [used EXCEPT !.switches = @ + 1]
  /\ flight' = IF flight = None THEN None ELSE [flight EXCEPT !.switched = TRUE]
  /\ UNCHANGED <<page, conversations, busy, turnLimitReached, created>>

selectConversation ==
  /\ page # "left"
  /\ \E k \in DOMAIN conversations :
       /\ activeId' = conversations[k].id
       /\ saveSession(conversations, conversations[k].id)
  /\ Switched

startConversation ==
  /\ page # "left"
  /\ activeId' = None /\ notice' = None
  /\ Switched
  /\ UNCHANGED saved

\* sendMessage up to the await.  The composer is disabled while the page is
\* busy and once the turn limit was reached.
sendMessage ==
  /\ SignedIn /\ ~ busy /\ ~ turnLimitReached
  /\ used.sends < MaxSends
  /\ used' = [used EXCEPT !.sends = @ + 1]
  /\ \E size \in Sizes :
       LET k == activeConversation IN
       flight' = [existing |-> IF k = None THEN None ELSE activeId, size |-> size,
                  history |-> contextHistory(k),
                  item |-> IF k = None THEN None ELSE conversations[k].item,
                  answer |-> None, switched |-> FALSE]
  /\ busy' = TRUE /\ notice' = None
  /\ UNCHANGED <<page, conversations, activeId, turnLimitReached, saved, created>>

----------------------------------------------------------------------------
(* The service.                                                            *)

\* The validator of ChatRequest.history.
Accepted(history, item) ==
  /\ Len(history) <= MAX_CONTEXT_MESSAGES
  /\ Total(history) <= MAX_CONTEXT_CHARS
  /\ history # <<>> => /\ item # None
                       /\ history[Len(history)].role = "assistant"
                       /\ \A k \in DOMAIN history :
                            history[k].role = IF k % 2 = 1 THEN "user" ELSE "assistant"

\* How POST /v1/chat answers a page, which always names a mode: so there is
\* no intake without an agent's reply.  A new work item is there before the
\* turn is reserved.  "text" is an error whose detail is a string.
chat ==
  /\ flight # None /\ flight.answer = None
  /\ \/ /\ ~ Accepted(flight.history, flight.item)
        /\ flight' = [flight EXCEPT !.answer = [kind |-> "invalid", item |-> None, size |-> 0]]
        /\ UNCHANGED created
     \/ /\ Accepted(flight.history, flight.item)
        /\ \E kind \in {"unauthorized", "runtime", "text", "tenant"} :
             flight' = [flight EXCEPT !.answer = [kind |-> kind, item |-> None, size |-> 0]]
        /\ UNCHANGED created
     \/ /\ Accepted(flight.history, flight.item)
        /\ created' = IF flight.item = None THEN created + 1 ELSE created
        /\ LET item == IF flight.item = None THEN created + 1 ELSE flight.item IN
           \/ \E kind \in {"limit", "unavailable"} :
                flight' = [flight EXCEPT !.answer = [kind |-> kind, item |-> item, size |-> 0]]
           \/ \E size \in Sizes :
                flight' = [flight EXCEPT !.answer = [kind |-> "reply", item |-> item, size |-> size]]
  /\ UNCHANGED <<page, conversations, activeId, busy, turnLimitReached, notice, saved, used>>

\* The connection fails before or after the service has answered.
Disconnect ==
  /\ flight # None
  /\ flight' = [flight EXCEPT !.answer = [kind |-> "network", item |-> None, size |-> 0]]
  /\ flight' # flight
  /\ UNCHANGED <<page, conversations, activeId, busy, turnLimitReached, notice, saved,
                 created, used>>

----------------------------------------------------------------------------
(* sendMessage after the await.                                            *)

\* Mutant: the error paths return without it.
notFinally == busy' = (flight.answer.kind \in {"text", "limit"})

\* The finally clause.
finally == busy' = FALSE

New(item, turns) == [id |-> item, item |-> item, turns |-> turns]

\* What an error response changes.
Refusal(answer) ==
  \/ /\ answer.kind = "unauthorized" /\ page' = "left"
     /\ UNCHANGED <<conversations, activeId, turnLimitReached, notice, saved>>
  \/ /\ answer.kind = "limit" /\ turnLimitReached' = TRUE /\ notice' = "limit"
     /\ UNCHANGED <<page, conversations, activeId, saved>>
  \/ /\ answer.kind \in {"runtime", "network"} /\ notice' = answer.kind
     /\ UNCHANGED <<page, conversations, activeId, turnLimitReached, saved>>
  \/ /\ answer.kind \in {"text", "invalid", "tenant", "unavailable"}
     /\ notice' = IF answer.kind = "text" THEN "text" ELSE "retry"
     /\ IF answer.item # None /\ flight.existing = None
        THEN /\ conversations' = <<New(answer.item, <<>>)>> \o conversations
             /\ activeId' = answer.item
             /\ saved' \in {saved, Stored(conversations', activeId')}
        ELSE UNCHANGED <<conversations, activeId, saved>>
     /\ UNCHANGED <<page, turnLimitReached>>

\* A reply goes to the conversation that is active now, with its question;
\* without one it begins a conversation.
Reply(answer) ==
  LET k == activeConversation
      added == <<[role |-> "user", size |-> flight.size],
                 [role |-> "assistant", size |-> answer.size]>>
  IN
  /\ \/ answer.kind = "reply" /\ k = None
          /\ conversations' = <<New(answer.item, trim(added))>> \o conversations
          /\ activeId' = answer.item
     \/ answer.kind = "reply" /\ k # None
          /\ conversations' = [conversations EXCEPT
               ![k].item = answer.item, ![k].turns = trim(@ \o added)]
          /\ activeId' = conversations[k].id
  /\ saveSession(conversations', activeId')
  /\ UNCHANGED <<page, turnLimitReached>>

\* An answer without a work item, which is not the service's.
Garbled ==
  /\ flight.answer.kind = "reply" /\ notice' = "garbled"
  /\ UNCHANGED <<page, conversations, activeId, turnLimitReached, saved>>

Receive ==
  /\ flight # None /\ flight.answer # None
  /\ Refusal(flight.answer) \/ Reply(flight.answer) \/ Garbled
  /\ finally
  /\ flight' = None
  /\ UNCHANGED <<created, used>>

----------------------------------------------------------------------------
Init ==
  /\ page = "loading"
  /\ conversations = <<>> /\ activeId = None
  /\ busy = FALSE /\ turnLimitReached = FALSE /\ notice = None
  /\ saved = [conversations |-> <<>>, activeId |-> None]
  /\ flight = None
  /\ created = 0
  /\ used = [sends |-> 0, reloads |-> 0, switches |-> 0]

User == Reload \/ selectConversation \/ startConversation \/ sendMessage

Next == User \/ initialize \/ loadRepositories \/ chat \/ Disconnect \/ Receive

Spec == Init /\ [][Next]_vars

\* The service answers or the connection fails, and the page runs its handler.
FairSpec == Spec /\ WF_vars(chat) /\ WF_vars(Receive)

----------------------------------------------------------------------------
(* Properties.                                                             *)

\* A message is refused for its history in one case only: the recent turns of
\* the conversation that asked are too long, and the page cut a question and
\* left its reply at the beginning.  In everything else (the number of turns,
\* their length, a work item, a reply at the end, the order of the roles) what
\* contextHistory sends agrees with what the validator of the service asks,
\* whatever the user switches, reloads or loses.
RefusedOnlyForACutQuestion ==
  flight # None /\ ~ Accepted(flight.history, flight.item) =>
    /\ flight.item # None
    /\ flight.history # <<>> /\ flight.history[1].role = "assistant"
    /\ \E k \in DOMAIN conversations :
         /\ conversations[k].id = flight.existing
         /\ ~ Total(Newest(conversations[k].turns, MAX_CONTEXT_MESSAGES)) <= MAX_CONTEXT_CHARS

\* A reply goes to the conversation that asked, under the same work item, or
\* begins the one that had none, and touches no other; the one exception is
\* a user who changed conversations while it was on its way.
ReplyStaysUnlessSwitched ==
  [][(Receive /\ Reply(flight.answer) /\ ~ flight.switched) =>
       LET asked == activeConversation' IN
       /\ asked # None
       /\ flight.existing # None => /\ conversations'[asked].id = flight.existing
                                    /\ conversations'[asked].item = flight.item
       /\ flight.existing = None => Len(conversations') = Len(conversations) + 1
       /\ \A k \in DOMAIN conversations :
            conversations[k].id # flight.existing =>
              \E j \in DOMAIN conversations' : conversations'[j] = conversations[k]]_vars

\* The composer comes back: however a request ends, the page stops being busy.
ComposerComesBack == busy ~> ~ busy

\* chat.js tells the user that the conversation "remains available for
\* retry": the history it would send again is one the service accepts.
RetryIsPossible ==
  LET k == activeConversation IN
  notice = "retry" /\ k # None => Accepted(contextHistory(k), conversations[k].item)

=============================================================================
