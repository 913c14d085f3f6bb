-------------------------- MODULE ChatClient_proofs --------------------------
(***************************************************************************)
(* What the page sends and where its replies go, for every limit, every    *)
(* number of conversations and everything the user may do meanwhile.       *)
(*                                                                         *)
(* A conversation is a sequence of exchanges, in memory and in             *)
(* sessionStorage, and a request in flight still belongs to the            *)
(* conversation that asked: ClientInv says both.                           *)
(***************************************************************************)
EXTENDS ChatClient, WellFoundedInduction, TLAPS

----------------------------------------------------------------------------
(* The inductive invariant.                                                *)

\* Questions and replies take turns, and the last turn is a reply.
Alternating(turns) ==
  \A k \in 1..Len(turns) :
    turns[k].role = IF (Len(turns) - k) % 2 = 0 THEN "assistant" ELSE "user"

Exchanges == {turns \in Seq(Turn) : Len(turns) % 2 = 0 /\ Alternating(turns)}

Conversation == [id : Nat, item : Nat, turns : Exchanges]

Answer ==
  [kind : {"invalid", "unauthorized", "runtime", "text", "tenant", "limit", "unavailable",
           "reply", "network"},
   item : Nat \cup {None}, size : Nat]

Request ==
  [existing : Nat \cup {None}, size : Sizes, history : Seq(Turn), item : Nat \cup {None},
   answer : Answer \cup {None}, switched : BOOLEAN]

Types ==
  /\ conversations \in Seq(Conversation)
  /\ activeId \in Nat \cup {None}
  /\ saved \in [conversations : Seq(Conversation), activeId : Nat \cup {None}]
  /\ created \in Nat
  /\ flight # None => flight \in Request

\* k is the first position of a conversation with this identifier.
FirstWith(cs, id, k) ==
  /\ k \in 1..Len(cs) /\ cs[k].id = id
  /\ \A j \in 1..(k - 1) : cs[j].id # id

\* What contextHistory makes of the turns of a conversation.
HistoryOf(history, turns) ==
  /\ history \in Seq(Turn)
  /\ Len(history) <= MAX_CONTEXT_MESSAGES
  /\ Total(history) <= MAX_CONTEXT_CHARS
  /\ Alternating(history)
  /\ Total(Newest(turns, MAX_CONTEXT_MESSAGES)) <= MAX_CONTEXT_CHARS
     => Len(history) % 2 = 0

\* The request names the conversation that asked, its work item and its turns.
Asked ==
  flight # None =>
    IF flight.existing = None
    THEN flight.item = None /\ flight.history = <<>>
    ELSE \E k \in 1..Len(conversations) :
           /\ FirstWith(conversations, flight.existing, k)
           /\ flight.item = conversations[k].item
           /\ HistoryOf(flight.history, conversations[k].turns)

\* A reply names the work item of the request, or the one that was created.
Answered ==
  flight # None /\ flight.answer # None /\ flight.answer.kind = "reply" =>
    /\ flight.answer.item \in Nat /\ flight.answer.size \in Sizes
    /\ flight.item # None => flight.answer.item = flight.item

\* Unless the user switched, the conversation that asked is the active one.
StillActive ==
  flight # None /\ ~ flight.switched =>
    IF flight.existing = None
    THEN \A k \in 1..Len(conversations) : conversations[k].id # activeId
    ELSE flight.existing = activeId

ClientInv == Types /\ Asked /\ Answered /\ StillActive

----------------------------------------------------------------------------
(* Numbers and sequences.                                                  *)

\* A nonempty set of natural numbers has a least one.
LEMMA LeastNumber ==
  ASSUME NEW T, T \subseteq Nat, T # {}
  PROVE  \E x \in T : \A y \in T : x <= y
<1>1. \E x \in T : \A y \in T : ~(<<y, x>> \in OpToRel(<, Nat))
  BY WFMin, NatLessThanWellFounded, Zenon
<1>2. ASSUME NEW x \in Nat, NEW y \in Nat, ~(<<y, x>> \in OpToRel(<, Nat))
      PROVE  ~(y < x)
  BY <1>2, Zenon DEF OpToRel
<1>3. \E x \in T : \A y \in T : ~(y < x)
  BY <1>1, <1>2, Zenon
<1>4. QED
  BY <1>3

\* A nonempty set of natural numbers with a bound has a greatest one.
LEMMA GreatestNumber ==
  ASSUME NEW N \in Nat, NEW T, T \subseteq 0..N, T # {}
  PROVE  \E x \in T : \A y \in T : y <= x
<1> DEFINE U == {n \in 0..N : N - n \in T}
<1>1. PICK t \in T : TRUE
  OBVIOUS
<1>2. N - t \in U
  BY <1>1
<1>3. PICK u \in U : \A v \in U : u <= v
  <2>1. U \subseteq Nat /\ U # {}
    BY <1>2
  <2> HIDE DEF U
  <2> QED
    BY <2>1, LeastNumber
<1>4. N - u \in T /\ u \in 0..N
  BY <1>3
<1>5. ASSUME NEW y \in T PROVE y <= N - u
  <2>1. N - y \in U /\ y \in 0..N
    BY <1>5
  <2>2. u <= N - y
    BY <1>3, <2>1
  <2> QED
    BY <1>4, <2>1, <2>2
<1> QED
  BY <1>4, <1>5

\* The last n of the turns, position by position.
LEMMA NewestIs ==
  ASSUME NEW turns \in Seq(Turn), NEW n \in Nat
  PROVE  LET newest == Newest(turns, n)
             dropped == IF Len(turns) > n THEN Len(turns) - n ELSE 0
         IN /\ newest \in Seq(Turn)
            /\ dropped \in Nat
            /\ Len(newest) = Len(turns) - dropped
            /\ \A k \in 1..Len(newest) : newest[k] = turns[dropped + k]
<1>1. CASE Len(turns) > n
  <2>1. /\ Newest(turns, n) = SubSeq(turns, Len(turns) - n + 1, Len(turns))
        /\ Len(turns) \in Nat /\ Len(turns) - n \in Nat
    BY <1>1 DEF Newest
  <2>2. /\ Newest(turns, n) \in Seq(Turn)
        /\ Len(Newest(turns, n)) = n
        /\ \A k \in 1..n : Newest(turns, n)[k] = turns[(Len(turns) - n) + k]
    BY <1>1, <2>1
  <2>3. Len(turns) - (Len(turns) - n) = n
    BY <2>1
  <2> QED
    BY <1>1, <2>1, <2>2, <2>3, Zenon
<1>2. CASE ~(Len(turns) > n)
  <2>1. Newest(turns, n) = SubSeq(turns, 1, Len(turns)) /\ Len(turns) \in Nat
    BY <1>2 DEF Newest
  <2>2. Newest(turns, n) = turns
    BY <2>1
  <2> QED
    BY <1>2, <2>1, <2>2
<1> QED
  BY <1>1, <1>2

\* The newest turns alternate too.
LEMMA NewestAlternate ==
  ASSUME NEW turns \in Seq(Turn), Alternating(turns), NEW n \in Nat
  PROVE  Alternating(Newest(turns, n))
<1> DEFINE newest == Newest(turns, n)
           dropped == IF Len(turns) > n THEN Len(turns) - n ELSE 0
<1>1. /\ newest \in Seq(Turn) /\ dropped \in Nat /\ Len(turns) \in Nat
      /\ Len(newest) = Len(turns) - dropped
      /\ \A k \in 1..Len(newest) : newest[k] = turns[dropped + k]
  BY NewestIs
<1> HIDE DEF newest, dropped
<1>2. ASSUME NEW k \in 1..Len(newest)
      PROVE  newest[k].role = IF (Len(newest) - k) % 2 = 0 THEN "assistant" ELSE "user"
  <2>1. dropped + k \in 1..Len(turns) /\ Len(turns) - (dropped + k) = Len(newest) - k
    BY <1>1
  <2> QED
    BY <1>1, <2>1 DEF Alternating
<1>3. Alternating(newest)
  BY <1>2 DEF Alternating
<1> QED
  BY <1>3 DEF newest

\* An even number of the newest turns of whole exchanges are whole exchanges.
LEMMA NewestExchanges ==
  ASSUME NEW turns \in Exchanges, NEW n \in Nat, n % 2 = 0
  PROVE  Newest(turns, n) \in Exchanges /\ Len(Newest(turns, n)) <= n
<1>1. turns \in Seq(Turn) /\ Alternating(turns) /\ Len(turns) % 2 = 0 /\ Len(turns) \in Nat
  BY DEF Exchanges
<1>2. Newest(turns, n) \in Seq(Turn) /\ Alternating(Newest(turns, n))
  BY <1>1, NewestIs, NewestAlternate
<1>3. Len(Newest(turns, n)) = IF Len(turns) > n THEN n ELSE Len(turns)
  BY <1>1, NewestIs
<1> QED
  BY <1>1, <1>2, <1>3 DEF Exchanges

\* Trimmed conversations are whole exchanges.
LEMMA TrimIs ==
  ASSUME NEW turns \in Exchanges
  PROVE  trim(turns) \in Exchanges
BY NewestExchanges, ClientConstants DEF trim

\* All the turns are their newest ones.
LEMMA NewestOfAll ==
  ASSUME NEW turns \in Seq(Turn)
  PROVE  Newest(turns, Len(turns)) = turns
BY DEF Newest

\* No turns have no length.
LEMMA EmptyTotal == Total(<<>>) = 0
<1> DEFINE step(f, n) == IF n = 0 THEN 0 ELSE f[n - 1] + <<>>[n].size
           sum == CHOOSE f : f = [n \in 0..Len(<<>>) |-> step(f, n)]
<1>1. Total(<<>>) = sum[Len(<<>>)]
  BY Zenon DEF Total
<1>2. Len(<<>>) = 0
  OBVIOUS
<1>3. \E f : f = [n \in 0..Len(<<>>) |-> step(f, n)]
  <2> DEFINE g == [n \in 0..0 |-> 0]
  <2>1. g = [n \in 0..0 |-> step(g, n)]
    OBVIOUS
  <2> QED
    BY <1>2, <2>1
<1>4. sum = [n \in 0..Len(<<>>) |-> step(sum, n)]
  BY <1>3, Zenon
<1> HIDE DEF sum
<1>5. sum[0] = 0
  BY <1>2, <1>4
<1> QED
  BY <1>1, <1>2, <1>5

\* The newest of no turns.
LEMMA NewestOfNone ==
  ASSUME NEW turns \in Seq(Turn)
  PROVE  Newest(turns, 0) = <<>>
<1>1. Newest(turns, 0) \in Seq(Turn) /\ Len(Newest(turns, 0)) = 0
  BY NewestIs
<1> QED
  BY <1>1

\* One sequence after another, position by position.
LEMMA ConcatIs ==
  ASSUME NEW S, NEW s \in Seq(S), NEW t \in Seq(S)
  PROVE  /\ s \o t \in Seq(S)
         /\ Len(s \o t) = Len(s) + Len(t)
         /\ \A k \in 1..Len(s) : (s \o t)[k] = s[k]
         /\ \A k \in 1..Len(t) : (s \o t)[Len(s) + k] = t[k]
OBVIOUS

\* One exchange more.
LEMMA ExchangeAdded ==
  ASSUME NEW turns \in Exchanges, NEW asked \in Sizes, NEW answered \in Sizes
  PROVE  LET added == <<[role |-> "user", size |-> asked],
                        [role |-> "assistant", size |-> answered]>>
         IN added \in Exchanges /\ turns \o added \in Exchanges
<1> DEFINE question == [role |-> "user", size |-> asked]
           reply == [role |-> "assistant", size |-> answered]
           added == <<question, reply>>
           all == turns \o added
<1>1. question \in Turn /\ reply \in Turn /\ question.role = "user" /\ reply.role = "assistant"
  BY DEF Turn
<1> HIDE DEF question, reply
<1>2. added \in Seq(Turn) /\ Len(added) = 2 /\ added[1] = question /\ added[2] = reply
  BY <1>1
<1>3. added \in Exchanges
  BY <1>1, <1>2 DEF Exchanges, Alternating
<1> HIDE DEF added
<1>4. turns \in Seq(Turn) /\ Len(turns) \in Nat /\ Len(turns) % 2 = 0 /\ Alternating(turns)
  BY DEF Exchanges
<1>5. /\ all \in Seq(Turn) /\ Len(all) = Len(turns) + Len(added)
      /\ \A k \in 1..Len(turns) : all[k] = turns[k]
      /\ \A k \in 1..Len(added) : all[Len(turns) + k] = added[k]
  <2>1. turns \in Seq(Turn) /\ added \in Seq(Turn)
    BY <1>2, <1>4
  <2>2. /\ turns \o added \in Seq(Turn) /\ Len(turns \o added) = Len(turns) + Len(added)
        /\ \A k \in 1..Len(turns) : (turns \o added)[k] = turns[k]
        /\ \A k \in 1..Len(added) : (turns \o added)[Len(turns) + k] = added[k]
    BY <2>1, ConcatIs
  <2> QED
    BY <2>2
<1> HIDE DEF all
<1>6. ASSUME NEW k \in 1..Len(all)
      PROVE  all[k].role = IF (Len(all) - k) % 2 = 0 THEN "assistant" ELSE "user"
  <2>1. CASE k \in 1..Len(turns)
    <3>1. all[k] = turns[k]
      BY <1>5, <2>1
    <3>2. (Len(turns) - k) % 2 = 0 <=> (Len(all) - k) % 2 = 0
      BY <1>2, <1>4, <1>5, <2>1
    <3> QED
      BY <1>4, <2>1, <3>1, <3>2 DEF Alternating
  <2>2. CASE k = Len(turns) + 1
    BY <1>1, <1>2, <1>4, <1>5, <2>2
  <2>3. CASE k = Len(turns) + 2
    BY <1>1, <1>2, <1>4, <1>5, <2>3
  <2> QED
    BY <1>2, <1>4, <1>5, <2>1, <2>2, <2>3
<1>7. Alternating(all)
  BY <1>6 DEF Alternating
<1>8. all \in Exchanges
  BY <1>2, <1>4, <1>5, <1>7 DEF Exchanges
<1> QED
  BY <1>3, <1>8, Zenon DEF all, added, question, reply

----------------------------------------------------------------------------
(* The operators of the page.                                              *)

\* A conversation is whole exchanges under a work item.
LEMMA NewIs ==
  ASSUME NEW item \in Nat, NEW turns \in Exchanges
  PROVE  New(item, turns) \in Conversation /\ New(item, turns).id = item
BY DEF New, Conversation

\* What sessionStorage keeps are the newest conversations.
LEMMA StoredIs ==
  ASSUME NEW cs \in Seq(Conversation), NEW id \in Nat \cup {None}
  PROVE  Stored(cs, id) \in [conversations : Seq(Conversation), activeId : Nat \cup {None}]
<1> DEFINE n == Min({Len(cs), MaxConversations})
<1>1. Len(cs) \in Nat /\ MaxConversations \in Nat
  BY ClientConstants
<1>2. \E x \in {Len(cs), MaxConversations} : \A y \in {Len(cs), MaxConversations} : x <= y
  BY <1>1
<1>3. n \in {Len(cs), MaxConversations} /\ \A y \in {Len(cs), MaxConversations} : n <= y
  BY <1>2, Zenon DEF Min
<1> HIDE DEF n
<1>4. n \in 0..Len(cs)
  BY <1>1, <1>3
<1>5. SubSeq(cs, 1, n) \in Seq(Conversation)
  BY <1>1, <1>4
<1> QED
  BY <1>5 DEF Stored, n

\* What is read back from sessionStorage is whole exchanges again.
LEMMA ReadIs ==
  ASSUME NEW cs \in Seq(Conversation)
  PROVE  [k \in 1..Len(cs) |-> [cs[k] EXCEPT !.turns = trim(@)]] \in Seq(Conversation)
<1>1. ASSUME NEW k \in 1..Len(cs) PROVE [cs[k] EXCEPT !.turns = trim(@)] \in Conversation
  <2>1. cs[k] \in Conversation
    OBVIOUS
  <2>2. trim(cs[k].turns) \in Exchanges
    BY <2>1, TrimIs DEF Conversation
  <2> QED
    BY <2>1, <2>2 DEF Conversation
<1> QED
  BY <1>1

\* A conversation that is there has a first position.
LEMMA FirstExists ==
  ASSUME NEW cs \in Seq(Conversation), NEW id, NEW k \in 1..Len(cs), cs[k].id = id
  PROVE  \E j \in 1..Len(cs) : FirstWith(cs, id, j)
<1> DEFINE T == {j \in 1..Len(cs) : cs[j].id = id}
<1>1. T \subseteq Nat /\ T # {}
  OBVIOUS
<1>2. PICK j \in T : \A i \in T : j <= i
  <2> HIDE DEF T
  <2> QED
    BY <1>1, LeastNumber
<1>3. j \in 1..Len(cs) /\ cs[j].id = id /\ Len(cs) \in Nat
  BY <1>2
<1>4. ASSUME NEW i \in 1..(j - 1) PROVE cs[i].id # id
  <2>1. i \in 1..Len(cs) /\ ~(j <= i)
    BY <1>3
  <2> QED
    BY <1>2, <2>1
<1> QED
  BY <1>3, <1>4 DEF FirstWith

\* There is only one first position.
LEMMA FirstUnique ==
  ASSUME NEW cs \in Seq(Conversation), NEW id, NEW j, NEW k,
         FirstWith(cs, id, j), FirstWith(cs, id, k)
  PROVE  j = k
<1>1. j \in Nat /\ k \in Nat /\ j >= 1 /\ k >= 1
  BY DEF FirstWith
<1>2. ~(j < k) /\ ~(k < j)
  BY <1>1 DEF FirstWith
<1> QED
  BY <1>1, <1>2

\* Where activeConversation looks for an identifier.
Position(cs, id) ==
  IF \E k \in DOMAIN cs : cs[k].id = id
  THEN CHOOSE k \in DOMAIN cs : cs[k].id = id /\ \A j \in 1..(k - 1) : cs[j].id # id
  ELSE None

\* It is the first position with the identifier, if there is one.
LEMMA PositionIs ==
  ASSUME NEW cs \in Seq(Conversation), NEW id
  PROVE  \/ Position(cs, id) = None /\ \A k \in 1..Len(cs) : cs[k].id # id
         \/ Position(cs, id) # None /\ FirstWith(cs, id, Position(cs, id))
<1>1. DOMAIN cs = 1..Len(cs) /\ Len(cs) \in Nat
  OBVIOUS
<1>2. CASE \E k \in DOMAIN cs : cs[k].id = id
  <2>1. PICK k \in 1..Len(cs) : FirstWith(cs, id, k)
    BY <1>1, <1>2, FirstExists
  <2>2. \E j \in DOMAIN cs : cs[j].id = id /\ \A i \in 1..(j - 1) : cs[i].id # id
    BY <1>1, <2>1 DEF FirstWith
  <2>3. /\ Position(cs, id) \in DOMAIN cs
        /\ cs[Position(cs, id)].id = id
        /\ \A i \in 1..(Position(cs, id) - 1) : cs[i].id # id
    BY <1>2, <2>2, Zenon DEF Position
  <2>4. Position(cs, id) # None
    BY <1>1, <2>3, ClientConstants
  <2> QED
    BY <1>1, <2>3, <2>4 DEF FirstWith
<1>3. CASE ~ \E k \in DOMAIN cs : cs[k].id = id
  BY <1>1, <1>3, Zenon DEF Position
<1> QED
  BY <1>2, <1>3

\* So is the active conversation.
LEMMA ActiveIs ==
  ASSUME conversations \in Seq(Conversation)
  PROVE  \/ /\ activeConversation = None
            /\ \A k \in 1..Len(conversations) : conversations[k].id # activeId
         \/ activeConversation # None /\ FirstWith(conversations, activeId, activeConversation)
<1>1. activeConversation = Position(conversations, activeId)
  BY Zenon DEF activeConversation, Position
<1> QED
  BY <1>1, PositionIs

\* Without a conversation there is no history.
LEMMA NoHistory == contextHistory(None) = <<>>
<1> DEFINE fits(n) == Total(Newest(<<>>, n)) <= MAX_CONTEXT_CHARS
           n == CHOOSE n \in 0..Len(<<>>) :
                  fits(n) /\ \A m \in (n + 1)..Len(<<>>) : ~ fits(m)
<1>1. contextHistory(None) = Newest(<<>>, n)
  BY Zenon DEF contextHistory
<1>2. Newest(<<>>, 0) = <<>>
  <2>1. <<>> \in Seq(Turn)
    OBVIOUS
  <2> QED
    BY <2>1, NewestOfNone
<1>3. fits(0)
  BY <1>2, EmptyTotal, ClientConstants
<1> HIDE DEF fits
<1>4. \E i \in 0..Len(<<>>) : fits(i) /\ \A m \in (i + 1)..Len(<<>>) : ~ fits(m)
  BY <1>3
<1>5. n \in 0..Len(<<>>)
  BY <1>4, Zenon
<1> HIDE DEF n
<1>6. n = 0
  BY <1>5
<1> QED
  BY <1>1, <1>2, <1>6

\* The history of a conversation is the longest end of its recent turns that
\* fits, so all of them when they fit.
LEMMA HistoryIs ==
  ASSUME NEW k \in 1..Len(conversations), conversations \in Seq(Conversation)
  PROVE  HistoryOf(contextHistory(k), conversations[k].turns)
<1> DEFINE turns == conversations[k].turns
           selected == Newest(turns, MAX_CONTEXT_MESSAGES)
           fits(n) == Total(Newest(selected, n)) <= MAX_CONTEXT_CHARS
           n == CHOOSE n \in 0..Len(selected) :
                  fits(n) /\ \A m \in (n + 1)..Len(selected) : ~ fits(m)
<1>1. k # None /\ MAX_CONTEXT_MESSAGES \in Nat /\ MAX_CONTEXT_MESSAGES % 2 = 0
      /\ MAX_CONTEXT_CHARS \in Nat
  BY ClientConstants
<1>2. turns \in Exchanges
  <2>1. conversations[k] \in Conversation
    OBVIOUS
  <2> QED
    BY <2>1 DEF Conversation
<1>3. contextHistory(k) = Newest(selected, n)
  BY <1>1, Zenon DEF contextHistory
<1> HIDE DEF turns
<1>4. /\ selected \in Seq(Turn) /\ Len(selected) \in Nat /\ Len(selected) % 2 = 0
      /\ Alternating(selected) /\ Len(selected) <= MAX_CONTEXT_MESSAGES
  BY <1>1, <1>2, NewestExchanges DEF Exchanges
<1> HIDE DEF selected
<1>5. fits(0)
  BY <1>1, <1>4, NewestOfNone, EmptyTotal
<1>6. fits(Len(selected)) <=> Total(selected) <= MAX_CONTEXT_CHARS
  BY <1>4, NewestOfAll
<1> HIDE DEF fits
<1>7. \E i \in 0..Len(selected) : fits(i) /\ \A m \in (i + 1)..Len(selected) : ~ fits(m)
  <2> DEFINE T == {i \in 0..Len(selected) : fits(i)}
  <2>1. T \subseteq 0..Len(selected) /\ T # {}
    BY <1>4, <1>5
  <2>2. PICK i \in T : \A m \in T : m <= i
    <3> HIDE DEF T
    <3> QED
      BY <1>4, <2>1, GreatestNumber
  <2> QED
    BY <1>4, <2>2
<1>8. n \in 0..Len(selected) /\ fits(n) /\ \A m \in (n + 1)..Len(selected) : ~ fits(m)
  BY <1>7, Zenon
<1> HIDE DEF n
<1> DEFINE history == Newest(selected, n)
<1>9. /\ history \in Seq(Turn) /\ Len(history) = n /\ Alternating(history)
      /\ Total(history) <= MAX_CONTEXT_CHARS
  <2>1. n \in Nat /\ n <= Len(selected)
    BY <1>4, <1>8
  <2>2. history \in Seq(Turn) /\ Len(history) = n
    BY <1>4, <2>1, NewestIs
  <2>3. Alternating(history)
    BY <1>4, <2>1, NewestAlternate
  <2> QED
    BY <1>8, <2>2, <2>3 DEF fits
<1>10. Total(selected) <= MAX_CONTEXT_CHARS => n = Len(selected)
  BY <1>4, <1>6, <1>8
<1> HIDE DEF history
<1>11. HistoryOf(history, turns)
  <2>1. Len(history) <= MAX_CONTEXT_MESSAGES
    BY <1>1, <1>4, <1>8, <1>9
  <2>2. Total(selected) <= MAX_CONTEXT_CHARS => Len(history) % 2 = 0
    BY <1>4, <1>9, <1>10
  <2>3. selected = Newest(turns, MAX_CONTEXT_MESSAGES)
    BY DEF selected
  <2> QED
    BY <1>9, <2>1, <2>2, <2>3, Zenon DEF HistoryOf
<1> QED
  BY <1>3, <1>11 DEF history, turns

\* An alternating history within the limits that names a work item is
\* accepted when it has whole exchanges, and begins with a reply otherwise.
LEMMA AcceptedIs ==
  ASSUME NEW history \in Seq(Turn), NEW item \in Nat,
         Len(history) <= MAX_CONTEXT_MESSAGES, Total(history) <= MAX_CONTEXT_CHARS,
         Alternating(history)
  PROVE  /\ Len(history) % 2 = 0 => Accepted(history, item)
         /\ Len(history) % 2 # 0 => history # <<>> /\ history[1].role = "assistant"
<1>1. Len(history) \in Nat /\ DOMAIN history = 1..Len(history) /\ item # None
  BY ClientConstants
<1>2. CASE Len(history) % 2 = 0
  <2>1. ASSUME history # <<>> PROVE history[Len(history)].role = "assistant"
    <3>1. Len(history) \in 1..Len(history) /\ (Len(history) - Len(history)) % 2 = 0
      BY <1>1, <2>1
    <3> QED
      BY <3>1 DEF Alternating
  <2>2. ASSUME NEW k \in 1..Len(history)
        PROVE  history[k].role = IF k % 2 = 1 THEN "user" ELSE "assistant"
    <3>1. (Len(history) - k) % 2 = 0 <=> k % 2 # 1
      BY <1>1, <1>2
    <3> QED
      BY <3>1 DEF Alternating
  <2> QED
    BY <1>1, <1>2, <2>1, <2>2 DEF Accepted
<1>3. CASE Len(history) % 2 # 0
  <2>1. Len(history) # 0 /\ history # <<>>
    BY <1>1, <1>3
  <2>2. 1 \in 1..Len(history) /\ (Len(history) - 1) % 2 = 0
    BY <1>1, <1>3, <2>1
  <2> QED
    BY <1>3, <2>1, <2>2 DEF Alternating
<1> QED
  BY <1>2, <1>3

----------------------------------------------------------------------------
(* Every step keeps the invariant.                                         *)

\* Saving changes only what sessionStorage holds, if that.
LEMMA SaveIs ==
  ASSUME Types, NEW cs \in Seq(Conversation), NEW id \in Nat \cup {None},
         saveSession(cs, id) \/ saved' \in {saved, Stored(cs, id)}
  PROVE  saved' \in [conversations : Seq(Conversation), activeId : Nat \cup {None}]
<1>1. saved' = saved \/ saved' = Stored(cs, id)
  BY DEF saveSession
<1> QED
  BY <1>1, StoredIs DEF Types

\* Nothing is in flight on a page that was opened anew.
LEMMA ReloadStep ==
  ASSUME ClientInv, Reload
  PROVE  ClientInv'
<1>1. saved \in [conversations : Seq(Conversation), activeId : Nat \cup {None}]
  BY DEF ClientInv, Types
<1>2. flight' = None /\ saved' = saved /\ created' = created
  BY DEF Reload
<1>3. conversations' \in Seq(Conversation) /\ activeId' \in Nat \cup {None}
  BY <1>1, ReadIs DEF Reload, readSession
<1> QED
  BY <1>1, <1>2, <1>3 DEF ClientInv, Types, Asked, Answered, StillActive

\* A request that was switched is what it was, to the service.
LEMMA SwitchedStep ==
  ASSUME ClientInv, Switched, activeId' \in Nat \cup {None},
         saved' \in [conversations : Seq(Conversation), activeId : Nat \cup {None}]
  PROVE  ClientInv'
<1>1. conversations' = conversations /\ created' = created
  BY DEF Switched
<1>2. CASE flight = None
  <2>1. flight' = None
    BY <1>2 DEF Switched
  <2> QED
    BY <1>1, <2>1 DEF ClientInv, Types, Asked, Answered, StillActive
<1>3. CASE flight # None
  <2>1. flight \in Request /\ flight' = [flight EXCEPT !.switched = TRUE]
    BY <1>3 DEF ClientInv, Types, Switched
  <2>2. /\ flight' \in Request /\ flight'.switched
        /\ flight'.existing = flight.existing /\ flight'.item = flight.item
        /\ flight'.history = flight.history /\ flight'.answer = flight.answer
    BY <2>1 DEF Request
  <2>3. Types'
    BY <1>1, <2>2 DEF ClientInv, Types
  <2>4. Asked'
    BY <1>1, <1>3, <2>2 DEF ClientInv, Asked
  <2>5. Answered'
    BY <1>3, <2>2 DEF ClientInv, Answered
  <2>6. StillActive'
    BY <2>2 DEF StillActive
  <2> QED
    BY <2>3, <2>4, <2>5, <2>6 DEF ClientInv
<1> QED
  BY <1>2, <1>3

LEMMA SelectStep ==
  ASSUME ClientInv, selectConversation
  PROVE  ClientInv'
<1>1. PICK k \in DOMAIN conversations :
        activeId' = conversations[k].id /\ saveSession(conversations, conversations[k].id)
  BY DEF selectConversation
<1>2. conversations \in Seq(Conversation) /\ Types
  BY DEF ClientInv, Types
<1>3. conversations[k] \in Conversation
  BY <1>2
<1>4. conversations[k].id \in Nat
  BY <1>3 DEF Conversation
<1>5. saved' \in [conversations : Seq(Conversation), activeId : Nat \cup {None}]
  BY <1>1, <1>2, <1>4, SaveIs
<1> QED
  BY <1>1, <1>4, <1>5, SwitchedStep DEF selectConversation

LEMMA StartStep ==
  ASSUME ClientInv, startConversation
  PROVE  ClientInv'
BY SwitchedStep DEF startConversation, ClientInv, Types

\* The request carries what the active conversation has.
LEMMA SendStep ==
  ASSUME ClientInv, sendMessage
  PROVE  ClientInv'
<1> DEFINE k == activeConversation
<1>1. PICK size \in Sizes :
        flight' = [existing |-> IF k = None THEN None ELSE activeId, size |-> size,
                   history |-> contextHistory(k),
                   item |-> IF k = None THEN None ELSE conversations[k].item,
                   answer |-> None, switched |-> FALSE]
  BY DEF sendMessage
<1>2. /\ conversations' = conversations /\ activeId' = activeId /\ saved' = saved
      /\ created' = created
  BY DEF sendMessage
<1>3. conversations \in Seq(Conversation) /\ activeId \in Nat \cup {None} /\ None \notin Nat
  BY ClientConstants DEF ClientInv, Types
<1> SUFFICES flight' \in Request /\ Asked' /\ Answered' /\ StillActive'
  BY <1>2 DEF ClientInv, Types
<1>4. Answered'
  BY <1>1 DEF Answered
<1>5. CASE k = None
  <2>1. flight' = [existing |-> None, size |-> size, history |-> <<>>, item |-> None,
                   answer |-> None, switched |-> FALSE]
    BY <1>1, <1>5, NoHistory
  <2>2. \A j \in 1..Len(conversations) : conversations[j].id # activeId
    <3>1. ~ FirstWith(conversations, activeId, None)
      BY <1>3 DEF FirstWith
    <3> QED
      BY <1>3, <1>5, <3>1, ActiveIs
  <2>3. flight' \in Request
    BY <2>1 DEF Request
  <2>4. Asked'
    BY <2>1 DEF Asked
  <2>5. StillActive'
    BY <1>2, <2>1, <2>2 DEF StillActive
  <2> QED
    BY <1>4, <2>3, <2>4, <2>5
<1>6. CASE k # None
  <2>1. FirstWith(conversations, activeId, k) /\ k \in 1..Len(conversations)
    BY <1>3, <1>6, ActiveIs DEF FirstWith
  <2>2. HistoryOf(contextHistory(k), conversations[k].turns)
    BY <1>3, <2>1, HistoryIs
  <2>3. conversations[k] \in Conversation
    BY <1>3, <2>1
  <2>4. conversations[k].item \in Nat /\ activeId \in Nat
    BY <2>1, <2>3 DEF Conversation, FirstWith
  <2>5. /\ flight'.existing = activeId /\ flight'.item = conversations[k].item
        /\ flight'.history = contextHistory(k)
    BY <1>1, <1>6
  <2>6. flight' \in Request
    <3>1. contextHistory(k) \in Seq(Turn)
      BY <2>2 DEF HistoryOf
    <3> QED
      BY <1>1, <1>6, <2>4, <3>1 DEF Request
  <2>7. Asked'
    <3> HIDE DEF k
    <3>1. flight'.existing # None
      BY <1>3, <2>4, <2>5
    <3>2. \E j \in 1..Len(conversations') :
            /\ FirstWith(conversations', flight'.existing, j)
            /\ flight'.item = conversations'[j].item
            /\ HistoryOf(flight'.history, conversations'[j].turns)
      BY <1>2, <2>1, <2>2, <2>5
    <3> QED
      BY <3>1, <3>2 DEF Asked
  <2>8. StillActive'
    BY <1>2, <1>3, <2>4, <2>5 DEF StillActive
  <2> QED
    BY <1>4, <2>6, <2>7, <2>8
<1> QED
  BY <1>5, <1>6

LEMMA InitializeStep ==
  ASSUME ClientInv, initialize
  PROVE  ClientInv'
<1>1. /\ conversations' = conversations /\ activeId' = activeId /\ saved' = saved
      /\ created' = created /\ flight' = flight
  BY DEF initialize
<1> QED
  BY <1>1 DEF ClientInv, Types, Asked, Answered, StillActive

\* Only a page without an active conversation begins a new one by itself.
LEMMA LoadStep ==
  ASSUME ClientInv, loadRepositories
  PROVE  ClientInv'
<1>1. /\ conversations' = conversations /\ saved' = saved
      /\ created' = created /\ flight' = flight
  BY DEF loadRepositories
<1>2. CASE activeId' = activeId
  BY <1>1, <1>2 DEF ClientInv, Types, Asked, Answered, StillActive
<1>3. CASE activeConversation = None /\ activeId' = None
  <2>1. conversations \in Seq(Conversation) /\ None \notin Nat
    BY ClientConstants DEF ClientInv, Types
  <2>2. \A k \in 1..Len(conversations) : conversations[k].id # activeId
    BY <1>3, <2>1, ActiveIs
  <2>3. \A k \in 1..Len(conversations) : conversations[k].id # None
    <3>1. ASSUME NEW k \in 1..Len(conversations) PROVE conversations[k].id \in Nat
      <4>1. conversations[k] \in Conversation
        BY <2>1
      <4> QED
        BY <4>1 DEF Conversation
    <3> QED
      BY <2>1, <3>1
  <2>4. Types' /\ Asked' /\ Answered'
    BY <1>1, <1>3 DEF ClientInv, Types, Asked, Answered
  <2>5. ASSUME flight # None, ~ flight.switched PROVE flight.existing = None
    <3>1. SUFFICES ASSUME flight.existing # None PROVE FALSE
      OBVIOUS
    <3>2. flight.existing = activeId
      BY <2>5, <3>1 DEF ClientInv, StillActive
    <3>3. \E k \in 1..Len(conversations) : FirstWith(conversations, flight.existing, k)
      BY <2>5, <3>1 DEF ClientInv, Asked
    <3> QED
      BY <2>2, <3>2, <3>3 DEF FirstWith
  <2>6. StillActive'
    BY <1>1, <1>3, <2>3, <2>5 DEF StillActive
  <2> QED
    BY <2>4, <2>6 DEF ClientInv
<1> QED
  BY <1>2, <1>3 DEF loadRepositories

\* An answer leaves the rest of the request and the page alone.
LEMMA AnswerStep ==
  ASSUME ClientInv, flight # None, NEW answer \in Answer,
         flight' = [flight EXCEPT !.answer = answer],
         answer.kind = "reply" => /\ answer.item \in Nat /\ answer.size \in Sizes
                                  /\ flight.item # None => answer.item = flight.item,
         conversations' = conversations, activeId' = activeId, saved' = saved, created' \in Nat
  PROVE  ClientInv'
<1>1. flight \in Request
  BY DEF ClientInv, Types
<1>2. /\ flight' \in Request /\ flight'.answer = answer
      /\ flight'.existing = flight.existing /\ flight'.item = flight.item
      /\ flight'.history = flight.history /\ flight'.switched = flight.switched
  BY <1>1 DEF Request
<1>3. Types'
  BY <1>2 DEF ClientInv, Types
<1>4. Asked'
  BY <1>2 DEF ClientInv, Asked
<1>5. Answered'
  BY <1>2 DEF Answered
<1>6. StillActive'
  BY <1>2 DEF ClientInv, StillActive
<1> QED
  BY <1>3, <1>4, <1>5, <1>6 DEF ClientInv

LEMMA ChatStep ==
  ASSUME ClientInv, chat
  PROVE  ClientInv'
<1> DEFINE item == IF flight.item = None THEN created + 1 ELSE flight.item
           refused(kind, i) == [kind |-> kind, item |-> i, size |-> 0]
<1>1. /\ conversations' = conversations /\ activeId' = activeId /\ saved' = saved
      /\ flight # None
  BY DEF chat
<1>2. flight \in Request /\ created \in Nat
  BY <1>1 DEF ClientInv, Types
<1>3. item \in Nat /\ (flight.item # None => item = flight.item)
  BY <1>2 DEF Request
<1>4. created' = created \/ created' = created + 1
  BY DEF chat
<1>5. created' \in Nat
  BY <1>2, <1>4
<1>6. \/ \E kind \in {"invalid", "unauthorized", "runtime", "text", "tenant"} :
           flight' = [flight EXCEPT !.answer = refused(kind, None)]
      \/ \E kind \in {"limit", "unavailable"} :
           flight' = [flight EXCEPT !.answer = refused(kind, item)]
      \/ \E size \in Sizes :
           flight' = [flight EXCEPT !.answer = [kind |-> "reply", item |-> item, size |-> size]]
  BY DEF chat
<1>7. CASE \E kind \in {"invalid", "unauthorized", "runtime", "text", "tenant"} :
             flight' = [flight EXCEPT !.answer = refused(kind, None)]
  <2>1. PICK kind \in {"invalid", "unauthorized", "runtime", "text", "tenant"} :
          flight' = [flight EXCEPT !.answer = refused(kind, None)]
    BY <1>7
  <2>2. refused(kind, None) \in Answer /\ refused(kind, None).kind # "reply"
    BY DEF Answer
  <2> QED
    BY <1>1, <1>5, <2>1, <2>2, AnswerStep
<1>8. CASE \E kind \in {"limit", "unavailable"} :
             flight' = [flight EXCEPT !.answer = refused(kind, item)]
  <2>1. PICK kind \in {"limit", "unavailable"} :
          flight' = [flight EXCEPT !.answer = refused(kind, item)]
    BY <1>8
  <2> HIDE DEF item
  <2>2. refused(kind, item) \in Answer /\ refused(kind, item).kind # "reply"
    BY <1>3 DEF Answer
  <2> QED
    BY <1>1, <1>5, <2>1, <2>2, AnswerStep
<1>9. CASE \E size \in Sizes :
             flight' = [flight EXCEPT !.answer = [kind |-> "reply", item |-> item, size |-> size]]
  <2>1. PICK size \in Sizes :
          flight' = [flight EXCEPT !.answer = [kind |-> "reply", item |-> item, size |-> size]]
    BY <1>9
  <2> HIDE DEF item
  <2> DEFINE answer == [kind |-> "reply", item |-> item, size |-> size]
  <2>2. answer \in Answer /\ answer.item = item /\ answer.size \in Sizes
    BY <1>3, ClientConstants DEF Answer
  <2>3. flight' = [flight EXCEPT !.answer = answer]
    BY <2>1
  <2> HIDE DEF answer
  <2> QED
    BY <1>1, <1>3, <1>5, <2>2, <2>3, AnswerStep
<1> QED
  BY <1>6, <1>7, <1>8, <1>9

LEMMA DisconnectStep ==
  ASSUME ClientInv, Disconnect
  PROVE  ClientInv'
<1> DEFINE answer == [kind |-> "network", item |-> None, size |-> 0]
<1>1. /\ conversations' = conversations /\ activeId' = activeId /\ saved' = saved
      /\ created' = created /\ flight # None /\ flight' = [flight EXCEPT !.answer = answer]
  BY DEF Disconnect
<1>2. answer \in Answer /\ answer.kind # "reply" /\ created \in Nat
  BY DEF Answer, ClientInv, Types
<1> HIDE DEF answer
<1> QED
  BY <1>1, <1>2, AnswerStep

\* A refused message may begin a conversation, without turns.
LEMMA RefusalTypes ==
  ASSUME ClientInv, flight # None, flight.answer # None, Refusal(flight.answer)
  PROVE  /\ conversations' \in Seq(Conversation) /\ activeId' \in Nat \cup {None}
         /\ saved' \in [conversations : Seq(Conversation), activeId : Nat \cup {None}]
<1>1. /\ conversations \in Seq(Conversation) /\ activeId \in Nat \cup {None} /\ Types
      /\ saved \in [conversations : Seq(Conversation), activeId : Nat \cup {None}]
  BY DEF ClientInv, Types
<1>2. CASE UNCHANGED <<conversations, activeId, saved>>
  BY <1>1, <1>2
<1>3. CASE /\ flight.answer.item # None
           /\ conversations' = <<New(flight.answer.item, <<>>)>> \o conversations
           /\ activeId' = flight.answer.item
           /\ saved' \in {saved, Stored(conversations', activeId')}
  <2>1. flight.answer.item \in Nat
    <3>1. flight \in Request
      BY DEF ClientInv, Types
    <3>2. flight.answer \in Answer
      BY <3>1 DEF Request
    <3> QED
      BY <1>3, <3>2 DEF Answer
  <2>2. <<>> \in Exchanges
    BY DEF Exchanges, Alternating
  <2>3. New(flight.answer.item, <<>>) \in Conversation
    BY <2>1, <2>2, NewIs
  <2>4. conversations' \in Seq(Conversation) /\ activeId' \in Nat
    BY <1>1, <1>3, <2>1, <2>3
  <2>5. PICK cs, id : cs = conversations' /\ id = activeId'
    OBVIOUS
  <2>6. saved' \in {saved, Stored(cs, id)} /\ cs \in Seq(Conversation) /\ id \in Nat \cup {None}
    BY <1>3, <2>4, <2>5
  <2>7. saved' \in [conversations : Seq(Conversation), activeId : Nat \cup {None}]
    BY <1>1, <2>6, SaveIs
  <2> QED
    BY <2>4, <2>7
<1> QED
  BY <1>2, <1>3 DEF Refusal

\* A reply begins a conversation, or becomes an exchange of the active one.
LEMMA ReplyIs ==
  ASSUME ClientInv, flight # None, flight.answer # None, Reply(flight.answer)
  PROVE  \/ /\ activeConversation = None
            /\ \E c \in Conversation :
                 conversations' = <<c>> \o conversations /\ activeId' = c.id
         \/ /\ activeConversation # None
            /\ FirstWith(conversations, activeId, activeConversation)
            /\ \E c \in Conversation :
                 /\ c.id = activeId /\ c.item = flight.answer.item
                 /\ conversations' = [conversations EXCEPT ![activeConversation] = c]
                 /\ activeId' = activeId
<1> DEFINE k == activeConversation
           added == <<[role |-> "user", size |-> flight.size],
                      [role |-> "assistant", size |-> flight.answer.size]>>
<1>1. flight \in Request /\ conversations \in Seq(Conversation)
  BY DEF ClientInv, Types
<1>2. flight.answer.kind = "reply"
  BY DEF Reply
<1>3. flight.answer.item \in Nat /\ flight.answer.size \in Sizes /\ flight.size \in Sizes
  BY <1>1, <1>2 DEF ClientInv, Answered, Request
<1>4. added \in Exchanges /\ \A turns \in Exchanges : turns \o added \in Exchanges
  <2>1. <<>> \in Exchanges
    BY DEF Exchanges, Alternating
  <2> QED
    BY <1>3, <2>1, ExchangeAdded
<1>5. \/ /\ k = None
         /\ conversations' = <<New(flight.answer.item, trim(added))>> \o conversations
         /\ activeId' = flight.answer.item
      \/ /\ k # None
         /\ conversations' = [conversations EXCEPT
              ![k].item = flight.answer.item, ![k].turns = trim(@ \o added)]
         /\ activeId' = conversations[k].id
  BY DEF Reply
<1> HIDE DEF added
<1>6. CASE k = None
  <2>1. New(flight.answer.item, trim(added)) \in Conversation
        /\ New(flight.answer.item, trim(added)).id = flight.answer.item
    BY <1>3, <1>4, TrimIs, NewIs
  <2> QED
    BY <1>5, <1>6, <2>1
<1>7. CASE k # None
  <2>1. FirstWith(conversations, activeId, k)
    BY <1>1, <1>7, ActiveIs
  <2>2. k \in 1..Len(conversations) /\ conversations[k].id = activeId
    BY <2>1 DEF FirstWith
  <2>3. conversations[k] \in Conversation
    BY <1>1, <2>2
  <2>4. conversations[k].turns \in Exchanges /\ activeId \in Nat
    BY <2>2, <2>3 DEF Conversation
  <2>5. trim(conversations[k].turns \o added) \in Exchanges
    BY <1>4, <2>4, TrimIs
  <2> DEFINE c == [conversations[k] EXCEPT !.item = flight.answer.item,
                                           !.turns = trim(@ \o added)]
  <2>6. c \in Conversation /\ c.id = activeId /\ c.item = flight.answer.item
    BY <1>3, <2>2, <2>3, <2>5 DEF Conversation
  <2>7. conversations' = [conversations EXCEPT ![k] = c]
    <3> HIDE DEF k
    <3>1. conversations' = [conversations EXCEPT
            ![k].item = flight.answer.item, ![k].turns = trim(@ \o added)]
      BY <1>5, <1>7
    <3> QED
      BY <1>1, <2>2, <3>1
  <2>8. activeId' = activeId
    BY <1>5, <1>7, <2>2
  <2> HIDE DEF c
  <2> QED
    BY <1>7, <2>1, <2>6, <2>7, <2>8
<1> QED
  BY <1>6, <1>7

\* A reply leaves whole exchanges.
LEMMA ReplyTypes ==
  ASSUME ClientInv, flight # None, flight.answer # None, Reply(flight.answer)
  PROVE  /\ conversations' \in Seq(Conversation) /\ activeId' \in Nat \cup {None}
         /\ saved' \in [conversations : Seq(Conversation), activeId : Nat \cup {None}]
<1>1. conversations \in Seq(Conversation) /\ activeId \in Nat \cup {None} /\ Types
  BY DEF ClientInv, Types
<1>2. conversations' \in Seq(Conversation) /\ activeId' \in Nat \cup {None}
  <2>1. CASE \E c \in Conversation :
               conversations' = <<c>> \o conversations /\ activeId' = c.id
    <3>1. PICK c \in Conversation :
            conversations' = <<c>> \o conversations /\ activeId' = c.id
      BY <2>1
    <3>2. c.id \in Nat
      BY DEF Conversation
    <3>3. conversations' \in Seq(Conversation)
      BY <1>1, <3>1
    <3> QED
      BY <3>1, <3>2, <3>3
  <2>2. CASE /\ FirstWith(conversations, activeId, activeConversation)
             /\ \E c \in Conversation :
                  /\ conversations' = [conversations EXCEPT ![activeConversation] = c]
                  /\ activeId' = activeId
    BY <1>1, <2>2 DEF FirstWith
  <2> QED
    BY <2>1, <2>2, ReplyIs
<1>3. PICK cs, id : cs = conversations' /\ id = activeId'
  OBVIOUS
<1>4. saveSession(cs, id) /\ cs \in Seq(Conversation) /\ id \in Nat \cup {None}
  BY <1>2, <1>3 DEF Reply, saveSession, Stored
<1>5. saved' \in [conversations : Seq(Conversation), activeId : Nat \cup {None}]
  BY <1>1, <1>4, SaveIs
<1> QED
  BY <1>2, <1>5

\* Once an answer is received nothing is in flight.
LEMMA ReceiveStep ==
  ASSUME ClientInv, Receive
  PROVE  ClientInv'
<1>1. flight # None /\ flight.answer # None /\ flight' = None /\ created' = created
  BY DEF Receive
<1>2. /\ conversations' \in Seq(Conversation) /\ activeId' \in Nat \cup {None}
      /\ saved' \in [conversations : Seq(Conversation), activeId : Nat \cup {None}]
  <2>1. CASE Refusal(flight.answer)
    BY <1>1, <2>1, RefusalTypes
  <2>2. CASE Reply(flight.answer)
    BY <1>1, <2>2, ReplyTypes
  <2>3. CASE Garbled
    BY <2>3 DEF Garbled, ClientInv, Types
  <2> QED
    BY <2>1, <2>2, <2>3 DEF Receive
<1>3. Types'
  BY <1>1, <1>2 DEF ClientInv, Types
<1> QED
  BY <1>1, <1>3 DEF ClientInv, Asked, Answered, StillActive

LEMMA ClientInit == Init => ClientInv
<1> SUFFICES ASSUME Init PROVE ClientInv
  OBVIOUS
<1>1. Types
  BY DEF Init, Types
<1> QED
  BY <1>1 DEF Init, ClientInv, Asked, Answered, StillActive

LEMMA ClientNext == ClientInv /\ [Next]_vars => ClientInv'
<1> SUFFICES ASSUME ClientInv, [Next]_vars PROVE ClientInv'
  OBVIOUS
<1>1. CASE Reload
  BY <1>1, ReloadStep
<1>2. CASE selectConversation
  BY <1>2, SelectStep
<1>3. CASE startConversation
  BY <1>3, StartStep
<1>4. CASE sendMessage
  BY <1>4, SendStep
<1>5. CASE initialize
  BY <1>5, InitializeStep
<1>6. CASE loadRepositories
  BY <1>6, LoadStep
<1>7. CASE chat
  BY <1>7, ChatStep
<1>8. CASE Disconnect
  BY <1>8, DisconnectStep
<1>9. CASE Receive
  BY <1>9, ReceiveStep
<1>10. CASE UNCHANGED vars
  BY <1>10 DEF vars, ClientInv, Types, Asked, Answered, StillActive
<1> QED
  BY <1>1, <1>2, <1>3, <1>4, <1>5, <1>6, <1>7, <1>8, <1>9, <1>10 DEF Next, User

LEMMA ClientAlways == Spec => []ClientInv
<1>1. ClientInv /\ [Next]_vars => ClientInv'
  BY ClientNext
<1> QED
  BY ClientInit, <1>1, PTL DEF Spec

----------------------------------------------------------------------------
(* The theorems.                                                           *)

\* What the service refuses of a page begins with a reply whose question was
\* cut from recent turns that were too long (contextHistory, ChatRequest).
THEOREM RefusalsAreCuts == Spec => []RefusedOnlyForACutQuestion
<1>1. ClientInv => RefusedOnlyForACutQuestion
  <2> SUFFICES ASSUME ClientInv, flight # None, ~ Accepted(flight.history, flight.item)
               PROVE  /\ flight.item # None
                      /\ flight.history # <<>> /\ flight.history[1].role = "assistant"
                      /\ \E k \in DOMAIN conversations :
                           /\ conversations[k].id = flight.existing
                           /\ ~ Total(Newest(conversations[k].turns, MAX_CONTEXT_MESSAGES))
                                 <= MAX_CONTEXT_CHARS
    BY DEF RefusedOnlyForACutQuestion
  <2>1. CASE flight.existing = None
    <3>1. flight.history = <<>>
      BY <2>1 DEF ClientInv, Asked
    <3>2. Accepted(<<>>, flight.item)
      BY EmptyTotal, ClientConstants DEF Accepted
    <3> QED
      BY <3>1, <3>2
  <2>2. CASE flight.existing # None
    <3>1. PICK k \in 1..Len(conversations) :
            /\ FirstWith(conversations, flight.existing, k)
            /\ flight.item = conversations[k].item
            /\ HistoryOf(flight.history, conversations[k].turns)
      BY <2>2 DEF ClientInv, Asked
    <3>2. /\ conversations[k] \in Conversation /\ k \in DOMAIN conversations
          /\ conversations[k].id = flight.existing
      BY <3>1 DEF ClientInv, Types, FirstWith
    <3>3. flight.item \in Nat
      BY <3>1, <3>2 DEF Conversation
    <3>4. /\ flight.history \in Seq(Turn) /\ Len(flight.history) <= MAX_CONTEXT_MESSAGES
          /\ Total(flight.history) <= MAX_CONTEXT_CHARS /\ Alternating(flight.history)
          /\ Total(Newest(conversations[k].turns, MAX_CONTEXT_MESSAGES)) <= MAX_CONTEXT_CHARS
             => Len(flight.history) % 2 = 0
      BY <3>1 DEF HistoryOf
    <3>5. /\ Len(flight.history) % 2 # 0
          /\ flight.history # <<>> /\ flight.history[1].role = "assistant"
      BY <3>3, <3>4, AcceptedIs, ClientConstants
    <3>6. ~ Total(Newest(conversations[k].turns, MAX_CONTEXT_MESSAGES)) <= MAX_CONTEXT_CHARS
      BY <3>4, <3>5
    <3> QED
      BY <3>2, <3>3, <3>5, <3>6, ClientConstants
  <2> QED
    BY <2>1, <2>2
<1> QED
  BY <1>1, ClientAlways, PTL

\* The active conversation after the step.
LEMMA ActiveAfter ==
  ASSUME ClientInv'
  PROVE  \/ /\ activeConversation' = None
            /\ \A k \in 1..Len(conversations') : conversations'[k].id # activeId'
         \/ /\ activeConversation' # None
            /\ FirstWith(conversations', activeId', activeConversation')
<1>1. PICK cs, id : cs \in Seq(Conversation) /\ cs = conversations' /\ id = activeId'
  BY DEF ClientInv, Types
<1>2. activeConversation' = Position(cs, id)
  <2>1. activeConversation' = Position(conversations', activeId')
    BY Zenon DEF activeConversation, Position
  <2> QED
    BY <1>1, <2>1
<1>3. \/ Position(cs, id) = None /\ \A k \in 1..Len(cs) : cs[k].id # id
      \/ Position(cs, id) # None /\ FirstWith(cs, id, Position(cs, id))
  BY <1>1, PositionIs
<1> QED
  BY <1>1, <1>2, <1>3

\* A reply that nobody switched away from goes to the conversation that asked
\* and to no other.
THEOREM RepliesStay == Spec => ReplyStaysUnlessSwitched
<1>1. ClientInv /\ ClientInv' =>
        ((Receive /\ Reply(flight.answer) /\ ~ flight.switched) =>
           LET asked == activeConversation' IN
           /\ asked # None
           /\ flight.existing # None => /\ conversations'[asked].id = flight.existing
                                        /\ conversations'[asked].item = flight.item
           /\ flight.existing = None => Len(conversations') = Len(conversations) + 1
           /\ \A k \in DOMAIN conversations :
                conversations[k].id # flight.existing =>
                  \E j \in DOMAIN conversations' : conversations'[j] = conversations[k])
  <2> SUFFICES ASSUME ClientInv, ClientInv', Receive, Reply(flight.answer), ~ flight.switched
               PROVE  LET asked == activeConversation' IN
           /\ asked # None
           /\ flight.existing # None => /\ conversations'[asked].id = flight.existing
                                        /\ conversations'[asked].item = flight.item
           /\ flight.existing = None => Len(conversations') = Len(conversations) + 1
           /\ \A k \in DOMAIN conversations :
                conversations[k].id # flight.existing =>
                  \E j \in DOMAIN conversations' : conversations'[j] = conversations[k]
    OBVIOUS
  <2>1. flight # None /\ flight.answer # None /\ flight.answer.kind = "reply"
    BY DEF Receive, Reply
  <2>2. /\ conversations \in Seq(Conversation) /\ conversations' \in Seq(Conversation)
        /\ None \notin Nat /\ Len(conversations) \in Nat
        /\ DOMAIN conversations = 1..Len(conversations)
        /\ DOMAIN conversations' = 1..Len(conversations')
    BY ClientConstants DEF ClientInv, Types
  <2>3. CASE flight.existing = None
    <3>1. \A k \in 1..Len(conversations) : conversations[k].id # activeId
      BY <2>1, <2>3 DEF ClientInv, StillActive
    <3>2. ~ FirstWith(conversations, activeId, activeConversation)
      BY <3>1 DEF FirstWith
    <3>3. PICK c \in Conversation : conversations' = <<c>> \o conversations /\ activeId' = c.id
      BY <2>1, <3>2, ReplyIs
    <3>4. /\ Len(conversations') = Len(conversations) + 1 /\ conversations'[1] = c
          /\ \A k \in 1..Len(conversations) : conversations'[k + 1] = conversations[k]
      BY <2>2, <3>3
    <3>5. activeConversation' # None
      <4>1. 1 \in 1..Len(conversations') /\ conversations'[1].id = activeId'
        BY <2>2, <3>3, <3>4
      <4> QED
        BY <4>1, ActiveAfter
    <3>6. \A k \in DOMAIN conversations :
            \E j \in DOMAIN conversations' : conversations'[j] = conversations[k]
      <4>1. ASSUME NEW k \in 1..Len(conversations)
            PROVE  k + 1 \in 1..Len(conversations') /\ conversations'[k + 1] = conversations[k]
        BY <2>2, <3>4
      <4> QED
        BY <2>2, <4>1
    <3> QED
      BY <2>3, <3>4, <3>5, <3>6
  <2>4. CASE flight.existing # None
    <3>1. flight.existing = activeId
      BY <2>1, <2>4 DEF ClientInv, StillActive
    <3>2. PICK k \in 1..Len(conversations) :
            FirstWith(conversations, flight.existing, k) /\ flight.item = conversations[k].item
      BY <2>1, <2>4 DEF ClientInv, Asked
    <3>3. /\ activeConversation # None
          /\ FirstWith(conversations, activeId, activeConversation)
      BY <2>2, <3>1, <3>2, ActiveIs DEF FirstWith
    <3>4. activeConversation = k
      BY <2>2, <3>1, <3>2, <3>3, FirstUnique
    <3>5. PICK c \in Conversation :
            /\ c.id = activeId /\ c.item = flight.answer.item
            /\ conversations' = [conversations EXCEPT ![k] = c]
            /\ activeId' = activeId
      BY <2>1, <3>3, <3>4, ReplyIs
    <3>6. flight.answer.item = flight.item
      <4>1. conversations[k] \in Conversation
        BY <2>2
      <4>2. flight.item # None
        BY <2>2, <3>2, <4>1 DEF Conversation
      <4> QED
        BY <2>1, <4>2 DEF ClientInv, Answered
    <3>7. /\ Len(conversations') = Len(conversations) /\ conversations'[k] = c
          /\ \A j \in 1..Len(conversations) : j # k => conversations'[j] = conversations[j]
      BY <2>2, <3>5
    <3>8. FirstWith(conversations', activeId', k)
      <4>1. conversations[k].id = activeId /\ k \in Nat
            /\ \A j \in 1..(k - 1) : conversations[j].id # activeId
        BY <2>2, <3>1, <3>2 DEF FirstWith
      <4>2. \A j \in 1..(k - 1) : conversations'[j] = conversations[j]
        BY <2>2, <3>7, <4>1
      <4> QED
        BY <2>2, <3>5, <3>7, <4>1, <4>2 DEF FirstWith
    <3>9. activeConversation' = k
      <4>1. PICK a : a = activeConversation'
        OBVIOUS
      <4>2. PICK cs, id : cs \in Seq(Conversation) /\ cs = conversations' /\ id = activeId'
        BY <2>2
      <4>3. FirstWith(cs, id, k)
        BY <3>8, <4>2
      <4>4. k \in 1..Len(conversations') /\ conversations'[k].id = activeId'
        BY <3>8 DEF FirstWith
      <4>5. FirstWith(conversations', activeId', activeConversation')
        BY <4>4, ActiveAfter
      <4>6. FirstWith(cs, id, a)
        BY <4>1, <4>2, <4>5
      <4> QED
        BY <4>1, <4>2, <4>3, <4>6, FirstUnique
    <3>10. ASSUME NEW j \in DOMAIN conversations, conversations[j].id # flight.existing
           PROVE  j \in DOMAIN conversations' /\ conversations'[j] = conversations[j]
      <4>1. j # k
        BY <3>2, <3>10 DEF FirstWith
      <4> QED
        BY <2>2, <3>7, <4>1
    <3> QED
      <4>1. k # None
        BY <2>2
      <4> QED
        BY <2>4, <3>1, <3>5, <3>6, <3>7, <3>9, <3>10, <4>1
  <2> QED
    BY <2>3, <2>4
<1> QED
  BY <1>1, ClientAlways, ClientNext, PTL DEF Spec, ReplyStaysUnlessSwitched

=============================================================================
