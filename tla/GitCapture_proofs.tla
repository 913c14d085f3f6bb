------------------------- MODULE GitCapture_proofs -------------------------
(***************************************************************************)
(* The capture of a review candidate for any files, directories, contents  *)
(* and indexes, any limit, and any number of edits at any moment.          *)
(*                                                                         *)
(* No single read shows that a candidate existed.  The moment it existed   *)
(* is when the base reference was resolved, between the two reads of       *)
(* everything else: CaptureInv says of each place whose changes a stamp    *)
(* shows that it was then what the view has of it, or that one of the      *)
(* checks still to come will see the difference; and of every other place  *)
(* that it had been so before, and is so again once it was read again.     *)
(***************************************************************************)
EXTENDS GitCapture, WellFoundedInduction, TLAPS

\* The elements of a sequence.
Elements(s) == {s[k] : k \in DOMAIN s}

\* What is read of Git, and what is stamped in the tree.
Metadata == {"HEAD", "INDEX", "SETTINGS", "RULES"}
Watched == {"ROOT"} \cup (Names \cap (present \cup Ancestors(present)))
Inputs == Said \ {"BASE"}

\* Command number s has dealt with x.
Passed(s, x) ==
  \/ step > s
  \/ step = s /\ \E k \in 1..(at - 1) : k \in DOMAIN Over(Program[s]) /\ Over(Program[s])[k] = x

Values == [Places -> Contents \cup {Missing}]

Types ==
  /\ value \in Values
  /\ \A x \in Solid : value[x] # Missing
  /\ stamp \in [Anchors -> Nat \ {0}] /\ meta \in [Anchors -> Nat]
  /\ \A x \in Anchors : meta[x] <= stamp[x]
  /\ history \in Seq(Values) /\ Len(history) \in Nat \ {0} /\ value = history[Len(history)]
  /\ step \in 1..32 /\ at \in Nat \ {0}
  /\ got \in Values
  /\ untracked \in SUBSET Files /\ attributes \in SUBSET Files
  /\ DOMAIN cand = {"BASE", "HEAD"}
  /\ anchored \in BOOLEAN

\* What holds at each command: the references are resolved before the second
\* reads, and only the files of the view are read.
Ordered ==
  /\ Passed(1, "SETTINGS") => got["SETTINGS"] # Missing
  /\ Passed(4, "HEAD") => got["HEAD"] # Missing
  /\ step < 6 => untracked = {}
  /\ step < 7 => attributes = {}
  /\ \A p \in Files : step < 9 \/ p \notin present => got[p] = Missing
  /\ IF Passed(11, "once") THEN cand["BASE"] # Missing ELSE cand["BASE"] = Missing
  /\ IF Passed(13, "once") THEN cand["HEAD"] # Missing ELSE cand["HEAD"] = Missing
  /\ outcome = "CAPTURED" => step = 32 /\ at > Len(Over("verify"))

\* x was c once.
Ever(x, c) == \E i \in 1..Len(history) : history[i][x] = c

\* What was read has been there, and what was not found was not.
WasThere ==
  /\ \A x \in Places : got[x] # Missing => Ever(x, got[x])
  /\ \A p \in Files \ (present \cup Ignored) : Passed(6, p) => Ever(p, Missing)

\* x has been read a second time: looked up, if it is not in the view.
Again(x) ==
  IF x \notin Files THEN Passed(30, x)
  ELSE IF x \in present THEN Passed(28, x)
  ELSE IF x \in Ignored THEN Passed(27, x)
  ELSE Passed(26, x)

\* Whose stamp shows that x changes: a file that is not in the view may only
\* come and go.
Watch(x) == IF x \in Files \ present THEN DirOf[x] ELSE x

\* The value c that x had once is the one that was read, unless a check that
\* is still to come will tell: the second read, or the stamp.
Kept(x, c) ==
  \/ c = got[x]
  \/ ~ Passed(32, Watch(x)) /\ stamp[Watch(x)] > meta[Watch(x)]
  \/ ~ Again(x) /\ value[x] # got[x]

\* What no stamp shows was so before the k-th moment, and after it.
Before(x, k) == \E i \in 1..k : history[i][x] = got[x]
After(x, k) == Again(x) => \E j \in k..Len(history) : history[j][x] = got[x]

\* The moment at which the base was resolved.
Moment(k) ==
  /\ history[k]["BASE"] = cand["BASE"]
  /\ \A x \in Inputs : IF Unwatched(x) THEN Before(x, k) /\ After(x, k)
                       ELSE Kept(x, history[k][x])

Witnessed ==
  /\ cand["BASE"] # Missing => \E k \in 1..Len(history) : Moment(k)
  /\ cand["HEAD"] # Missing /\ anchored => Kept("HEAD", cand["HEAD"])

CaptureInv == Types /\ Ordered /\ WasThere /\ Witnessed

\* As long as nobody else writes, everything is read as it is.
Quiet ==
  /\ stamp = [x \in Anchors |-> 1] /\ handle \in {Closed, 1}
  /\ Passed(1, "SETTINGS") => got["SETTINGS"] = value["SETTINGS"]
  /\ \A x \in GitPlaces : Passed(3, x) => meta[x] = 1
  /\ \A x \in Metadata \ {"SETTINGS"} : Passed(4, x) => got[x] = value[x]
  /\ \A p \in untracked : Untracked(p)
  /\ \A p \in Files \ untracked : Passed(6, p) => ~ Untracked(p)
  /\ \A p \in attributes : value[p] # Missing
  /\ \A p \in controls \ attributes : Passed(7, p) => value[p] = Missing
  /\ \A x \in Watched : Passed(8, x) => meta[x] = 1
  /\ \A x \in present : Passed(9, x) => got[x] = value[x]
  /\ \A x \in {"BASE", "HEAD"} : cand[x] \in {Missing, value[x]}
  /\ outcome = "REFUSED" => Len(observed) > MaxFiles \/ value["LOCK"] # Missing

QuietInv == Len(history) = 1 => Quiet

----------------------------------------------------------------------------
(* The sorted sequence of some names.                                      *)

\* What the sequence of the first n names is made of.
Next1(S, f, n) ==
  IF n = 0 THEN <<>>
  ELSE IF Paths[n] \in S THEN Append(f[n - 1], Paths[n]) ELSE f[n - 1]

\* The names are a sequence of names.
LEMMA PathsAre ==
  /\ Paths \in Seq(Names) /\ Len(Paths) \in Nat /\ DOMAIN Paths = 1..Len(Paths)
  /\ \A k \in 1..Len(Paths) : Paths[k] \in Names
BY CaptureConstants DEF Names

\* A nonempty set of natural numbers has a least one.
LEMMA LeastNumber ==
  ASSUME NEW T, T \subseteq Nat, T # {}
  PROVE  \E x \in T : \A y \in T : x <= y
<1>1. \E x \in T : \A y \in T : ~(<<y, x>> \in OpToRel(<, Nat))
  BY WFMin, NatLessThanWellFounded, Zenon
<1>2. ASSUME NEW x \in Nat, NEW y \in Nat, ~(<<y, x>> \in OpToRel(<, Nat))
      PROVE  ~(y < x)
  BY <1>2, Zenon DEF OpToRel
<1>3. \E x \in T : \A y \in T : ~(y < x)
  BY <1>1, <1>2, Zenon
<1>4. QED
  BY <1>3

\* One element more.
LEMMA AppendElements ==
  ASSUME NEW S, NEW s \in Seq(S), NEW p \in S
  PROVE  Append(s, p) \in Seq(S) /\ Elements(Append(s, p)) = Elements(s) \cup {p}
<1>1. /\ Append(s, p) \in Seq(S) /\ Len(s) \in Nat
      /\ DOMAIN s = 1..Len(s) /\ DOMAIN Append(s, p) = 1..(Len(s) + 1)
  OBVIOUS
<1>2. Append(s, p)[Len(s) + 1] = p /\ \A k \in 1..Len(s) : Append(s, p)[k] = s[k]
  OBVIOUS
<1>3. 1..(Len(s) + 1) = 1..Len(s) \cup {Len(s) + 1}
  BY <1>1
<1> DEFINE t == Append(s, p)
<1>4. DOMAIN t = 1..Len(s) \cup {Len(s) + 1}
  BY <1>1, <1>3
<1> HIDE DEF t
<1>5. {t[k] : k \in DOMAIN t} = {t[k] : k \in 1..Len(s)} \cup {t[Len(s) + 1]}
  BY <1>4
<1>6. {t[k] : k \in 1..Len(s)} = {s[k] : k \in 1..Len(s)}
  BY <1>2 DEF t
<1>7. t[Len(s) + 1] = p
  BY <1>2 DEF t
<1>8. Elements(t) = Elements(s) \cup {p}
  BY <1>1, <1>5, <1>6, <1>7 DEF Elements
<1> QED
  BY <1>1, <1>8 DEF t

\* The recursive function is there, for every number of names: there is no
\* least one without it.
LEMMA UpToExists ==
  ASSUME NEW S
  PROVE  \E f : f = [n \in 0..Len(Paths) |-> Next1(S, f, n)]
<1> DEFINE has(m) == m <= Len(Paths) => \E f : f = [n \in 0..m |-> Next1(S, f, n)]
<1>1. has(0)
  <2> DEFINE f == [n \in 0..0 |-> <<>>]
  <2>1. f = [n \in 0..0 |-> Next1(S, f, n)]
    BY DEF Next1
  <2> QED
    BY <2>1
<1>2. ASSUME NEW m \in Nat, has(m) PROVE has(m + 1)
  <2> SUFFICES ASSUME m + 1 <= Len(Paths)
               PROVE  \E f : f = [n \in 0..(m + 1) |-> Next1(S, f, n)]
    OBVIOUS
  <2>1. PICK f : f = [n \in 0..m |-> Next1(S, f, n)]
    BY <1>2, PathsAre
  <2> DEFINE g == [n \in 0..(m + 1) |-> IF n = m + 1 THEN Next1(S, f, m + 1) ELSE f[n]]
  <2>2. \A n \in 0..m : g[n] = f[n] /\ f[n] = Next1(S, f, n)
    BY <2>1
  <2>3. \A n \in 0..(m + 1) : g[n] = Next1(S, g, n)
    <3> SUFFICES ASSUME NEW n \in 0..(m + 1) PROVE g[n] = Next1(S, g, n)
      OBVIOUS
    <3>1. n # 0 => n - 1 \in 0..m
      OBVIOUS
    <3>2. Next1(S, g, n) = Next1(S, f, n)
      <4> HIDE DEF g
      <4> QED
        BY <2>2, <3>1 DEF Next1
    <3>3. CASE n = m + 1
      BY <3>2, <3>3
    <3>4. CASE n # m + 1
      BY <2>2, <3>2, <3>4
    <3> QED
      BY <3>3, <3>4
  <2>4. g = [n \in 0..(m + 1) |-> g[n]]
    OBVIOUS
  <2>5. g = [n \in 0..(m + 1) |-> Next1(S, g, n)]
    <3> HIDE DEF g
    <3> QED
      BY <2>3, <2>4
  <2> QED
    BY <2>5
<1>3. ASSUME NEW L \in Nat PROVE has(L)
  <2> DEFINE failing == {m \in Nat : ~ has(m)}
  <2> SUFFICES ASSUME ~ has(L) PROVE FALSE
    OBVIOUS
  <2> HIDE DEF has
  <2>1. failing # {} /\ failing \subseteq Nat
    OBVIOUS
  <2>2. PICK m \in failing : \A k \in failing : m <= k
    <3> HIDE DEF failing
    <3> QED
      BY <2>1, LeastNumber
  <2>3. m \in Nat /\ m # 0 /\ m - 1 \notin failing
    BY <1>1, <2>2
  <2>4. m - 1 \in Nat /\ (m - 1) + 1 = m
    BY <2>3
  <2> QED
    BY <1>2, <2>2, <2>3, <2>4
<1> QED
  BY <1>3, PathsAre

\* So the sequence of all names is made of those of the first ones, one by one.
LEMMA UpToIs ==
  ASSUME NEW S
  PROVE  \E f : /\ Sorted(S) = f[Len(Paths)]
               /\ \A n \in 0..Len(Paths) : f[n] = Next1(S, f, n)
<1> DEFINE f == CHOOSE f : f = [n \in 0..Len(Paths) |-> Next1(S, f, n)]
<1>1. Sorted(S) = f[Len(Paths)]
  BY Zenon DEF Sorted, Next1
<1>2. f = [n \in 0..Len(Paths) |-> Next1(S, f, n)]
  BY UpToExists, Zenon
<1> HIDE DEF f
<1>3. \A n \in 0..Len(Paths) : f[n] = Next1(S, f, n)
  BY <1>2
<1> QED
  BY <1>1, <1>3

\* The sequence has the names of the set and no others.
LEMMA SortedIs ==
  ASSUME NEW S
  PROVE  Sorted(S) \in Seq(Names) /\ Elements(Sorted(S)) = Names \cap S
<1>1. PICK f : /\ Sorted(S) = f[Len(Paths)]
               /\ \A n \in 0..Len(Paths) : f[n] = Next1(S, f, n)
  BY UpToIs
<1> DEFINE first(n) == {Paths[k] : k \in 1..n} \cap S
           right(n) == n <= Len(Paths) => f[n] \in Seq(Names) /\ Elements(f[n]) = first(n)
<1>2. right(0)
  <2>1. f[0] = <<>>
    BY <1>1, PathsAre DEF Next1
  <2> QED
    BY <2>1 DEF Elements
<1>3. ASSUME NEW n \in Nat, right(n) PROVE right(n + 1)
  <2> SUFFICES ASSUME n + 1 <= Len(Paths)
               PROVE  f[n + 1] \in Seq(Names) /\ Elements(f[n + 1]) = first(n + 1)
    OBVIOUS
  <2> DEFINE p == Paths[n + 1]  s == f[n]
  <2>1. s \in Seq(Names) /\ Elements(s) = first(n) /\ p \in Names
    BY <1>3, PathsAre
  <2>2. f[n + 1] = IF p \in S THEN Append(s, p) ELSE s
    <3>1. n + 1 \in 0..Len(Paths) /\ n + 1 # 0 /\ n + 1 - 1 = n
      BY PathsAre
    <3> QED
      BY <1>1, <3>1 DEF Next1
  <2>3. {Paths[k] : k \in 1..(n + 1)} = {Paths[k] : k \in 1..n} \cup {p}
    <3>1. 1..(n + 1) = 1..n \cup {n + 1}
      OBVIOUS
    <3> QED
      BY <3>1
  <2>4. CASE p \notin S
    BY <2>1, <2>2, <2>3, <2>4
  <2>5. CASE p \in S
    <3> HIDE DEF p, s
    <3>1. first(n + 1) = first(n) \cup {p}
      BY <2>3, <2>5
    <3>2. Append(s, p) \in Seq(Names) /\ Elements(Append(s, p)) = Elements(s) \cup {p}
      BY <2>1, AppendElements
    <3> QED
      BY <2>1, <2>2, <2>5, <3>1, <3>2
  <2> QED
    BY <2>4, <2>5
<1>4. ASSUME NEW L \in Nat PROVE right(L)
  <2> DEFINE failing == {m \in Nat : ~ right(m)}
  <2> SUFFICES ASSUME ~ right(L) PROVE FALSE
    OBVIOUS
  <2> HIDE DEF right
  <2>1. failing # {} /\ failing \subseteq Nat
    OBVIOUS
  <2>2. PICK m \in failing : \A k \in failing : m <= k
    <3> HIDE DEF failing
    <3> QED
      BY <2>1, LeastNumber
  <2>3. m \in Nat /\ m # 0 /\ m - 1 \notin failing
    BY <1>2, <2>2
  <2>4. m - 1 \in Nat /\ (m - 1) + 1 = m
    BY <2>3
  <2> QED
    BY <1>3, <2>2, <2>3, <2>4
<1>5. first(Len(Paths)) = Names \cap S
  BY PathsAre DEF Names
<1> HIDE DEF first
<1> QED
  BY <1>1, <1>4, <1>5, PathsAre

----------------------------------------------------------------------------
(* The commands of a capture and what they go through.                     *)

\* One sequence after another.
LEMMA ConcatElements ==
  ASSUME NEW S, NEW s \in Seq(S), NEW t \in Seq(S)
  PROVE  s \o t \in Seq(S) /\ Elements(s \o t) = Elements(s) \cup Elements(t)
<1> DEFINE u == s \o t
<1>1. /\ u \in Seq(S) /\ Len(s) \in Nat /\ Len(t) \in Nat
      /\ DOMAIN s = 1..Len(s) /\ DOMAIN t = 1..Len(t) /\ DOMAIN u = 1..(Len(s) + Len(t))
  OBVIOUS
<1>2. /\ \A k \in 1..Len(s) : u[k] = s[k]
      /\ \A k \in 1..Len(t) : u[Len(s) + k] = t[k]
  OBVIOUS
<1> HIDE DEF u
<1>3. ASSUME NEW k \in 1..(Len(s) + Len(t)) PROVE u[k] \in Elements(s) \cup Elements(t)
  <2>1. CASE k <= Len(s)
    BY <1>1, <1>2, <2>1 DEF Elements
  <2>2. CASE k > Len(s)
    <3>1. k - Len(s) \in 1..Len(t) /\ Len(s) + (k - Len(s)) = k
      BY <1>1, <2>2
    <3>2. u[k] = t[k - Len(s)]
      BY <1>2, <3>1
    <3> QED
      BY <1>1, <3>1, <3>2 DEF Elements
  <2> QED
    BY <1>1, <2>1, <2>2
<1>4. ASSUME NEW k \in 1..Len(s) PROVE s[k] \in Elements(u)
  <2>1. k \in DOMAIN u
    BY <1>1
  <2> QED
    BY <1>2, <2>1 DEF Elements
<1>5. ASSUME NEW k \in 1..Len(t) PROVE t[k] \in Elements(u)
  <2>1. Len(s) + k \in DOMAIN u
    BY <1>1
  <2> QED
    BY <1>2, <2>1 DEF Elements
<1>6. Elements(u) = Elements(s) \cup Elements(t)
  BY <1>1, <1>3, <1>4, <1>5 DEF Elements
<1> QED
  BY <1>1, <1>6 DEF u

\* Which command is which.
LEMMA ProgramIs ==
  /\ Len(Program) = 32
  /\ \A s \in 1..32 :
       /\ Program[s] = "settings" <=> s = 1
       /\ Program[s] = "branch" <=> s = 2
       /\ Program[s] = "metaGit" <=> s = 3
       /\ Program[s] = "readGit" <=> s = 4
       /\ Program[s] = "verifyGit" <=> s \in {5, 29, 31}
       /\ Program[s] = "list" <=> s = 6
       /\ Program[s] = "attributes" <=> s = 7
       /\ Program[s] = "metaTree" <=> s = 8
       /\ Program[s] = "readTree" <=> s = 9
       /\ Program[s] = "verify" <=> s \in {10, 12, 14, 16, 18, 20, 22, 24, 25, 32}
       /\ Program[s] = "base" <=> s \in {11, 17}
       /\ Program[s] = "head" <=> s \in {13, 19, 23}
       /\ Program[s] = "diff" <=> s \in {15, 21}
       /\ Program[s] = "relist" <=> s = 26
       /\ Program[s] = "reattributes" <=> s = 27
       /\ Program[s] = "rereadTree" <=> s = 28
       /\ Program[s] = "rereadGit" <=> s = 30
<1>1. Len(Program) = 32
  BY DEF Program
<1>2. /\ Program[1] = "settings" /\ Program[2] = "branch" /\ Program[3] = "metaGit"
      /\ Program[4] = "readGit" /\ Program[5] = "verifyGit" /\ Program[6] = "list"
      /\ Program[7] = "attributes" /\ Program[8] = "metaTree" /\ Program[9] = "readTree"
      /\ Program[10] = "verify" /\ Program[11] = "base" /\ Program[12] = "verify"
      /\ Program[13] = "head" /\ Program[14] = "verify" /\ Program[15] = "diff"
      /\ Program[16] = "verify" /\ Program[17] = "base" /\ Program[18] = "verify"
      /\ Program[19] = "head" /\ Program[20] = "verify" /\ Program[21] = "diff"
      /\ Program[22] = "verify" /\ Program[23] = "head" /\ Program[24] = "verify"
      /\ Program[25] = "verify" /\ Program[26] = "relist" /\ Program[27] = "reattributes"
      /\ Program[28] = "rereadTree" /\ Program[29] = "verifyGit" /\ Program[30] = "rereadGit"
      /\ Program[31] = "verifyGit" /\ Program[32] = "verify"
  BY DEF Program
<1>3. ASSUME NEW s \in 1..32
      PROVE  s \in {1, 2, 3, 4, 5, 6, 7, 8, 9, 10, 11, 12, 13, 14, 15, 16, 17, 18, 19, 20, 21,
                    22, 23, 24, 25, 26, 27, 28, 29, 30, 31, 32}
  OBVIOUS
<1> QED
  BY <1>1, <1>2, <1>3

\* What the commands go through.
LEMMA OverIs ==
  /\ Over("settings") = <<"SETTINGS">>
  /\ Over("metaGit") = Git /\ Over("verifyGit") = Git \o <<"UNLOCKED">>
  /\ Over("readGit") = <<"HEAD", "INDEX", "RULES">>
  /\ Over("rereadGit") = <<"HEAD", "INDEX", "RULES", "SETTINGS">>
  /\ Over("list") = Sorted(Files) /\ Over("relist") = Sorted(Files)
  /\ Over("attributes") = Sorted(controls) /\ Over("reattributes") = Sorted(controls)
  /\ Over("readTree") = observed /\ Over("rereadTree") = observed
  /\ Over("metaTree") = Tree /\ Over("verify") = (Git \o <<"UNLOCKED">>) \o Tree
  /\ \A c \in {"branch", "base", "head", "diff"} : Over(c) = <<"once">>
BY DEF Over

\* The places of Git are not names of the tree.
LEMMA Apart ==
  /\ Files \subseteq Names /\ Names \cap GitPlaces = {} /\ Metadata \subseteq GitPlaces
  /\ \A x \in {"HEAD", "INDEX", "LOCK", "SETTINGS", "RULES", "BASE", "ROOT", "UNLOCKED", "once"} :
       x \notin Names /\ x \notin Files
  /\ Metadata \subseteq Places /\ Files \subseteq Places /\ Metadata \cap Files = {}
  /\ GitPlaces \subseteq Places /\ GitPlaces \subseteq Anchors
  /\ Names \subseteq Anchors /\ "UNLOCKED" \notin Anchors
BY CaptureConstants DEF GitPlaces, Metadata, Places, Anchors

\* The view is made of files.
LEMMA ViewIs ==
  ASSUME Types
  PROVE  /\ tracked \subseteq Files /\ listed \subseteq Files /\ present \subseteq Files
         /\ controls \subseteq Files /\ Watched \subseteq Anchors
         /\ Inputs \subseteq Metadata \cup Files
<1>1. got["INDEX"] \in Contents \cup {Missing}
  BY Apart DEF Types, Values, Metadata
<1>2. tracked \subseteq Files
  BY <1>1, CaptureConstants DEF tracked
<1>3. listed \subseteq Files /\ present \subseteq Files
  BY <1>2 DEF listed, present, Types
<1>4. controls \subseteq Files
  BY CaptureConstants DEF controls
<1>5. Watched \subseteq Anchors
  BY DEF Watched, Anchors
<1>6. Inputs \subseteq Metadata \cup Files
  BY <1>2, <1>4 DEF Inputs, Said, Metadata
<1> QED
  BY <1>2, <1>3, <1>4, <1>5, <1>6

\* And of what places the commands are made.
LEMMA OverElements ==
  ASSUME Types
  PROVE  /\ \A c : Over(c) \in Seq(Anchors \cup {"once", "UNLOCKED"})
         /\ Elements(Git) = GitPlaces
         /\ Elements(Git \o <<"UNLOCKED">>) = GitPlaces \cup {"UNLOCKED"}
         /\ Elements(<<"HEAD", "INDEX", "RULES">>) = Metadata \ {"SETTINGS"}
         /\ Elements(<<"HEAD", "INDEX", "RULES", "SETTINGS">>) = Metadata
         /\ Elements(<<"SETTINGS">>) = {"SETTINGS"} /\ Elements(<<"once">>) = {"once"}
         /\ Elements(Sorted(Files)) = Files /\ Elements(Sorted(controls)) = controls
         /\ Elements(observed) = present /\ Elements(Tree) = Watched
         /\ Elements((Git \o <<"UNLOCKED">>) \o Tree) = GitPlaces \cup {"UNLOCKED"} \cup Watched
<1> DEFINE S == Anchors \cup {"once", "UNLOCKED"}
<1>1. Git \in Seq(S) /\ Elements(Git) = GitPlaces
  <2>1. /\ Git \in Seq(S) /\ DOMAIN Git = {1, 2, 3, 4, 5} /\ Git[1] = "HEAD" /\ Git[2] = "INDEX"
        /\ Git[3] = "LOCK" /\ Git[4] = "SETTINGS" /\ Git[5] = "RULES"
    BY DEF Git, Anchors, GitPlaces
  <2> QED
    BY <2>1 DEF Elements, GitPlaces
<1>2. /\ <<"HEAD", "INDEX", "RULES">> \in Seq(S)
      /\ Elements(<<"HEAD", "INDEX", "RULES">>) = Metadata \ {"SETTINGS"}
  <2> DEFINE t == <<"HEAD", "INDEX", "RULES">>
  <2>1. /\ t \in Seq(S) /\ DOMAIN t = {1, 2, 3}
        /\ t[1] = "HEAD" /\ t[2] = "INDEX" /\ t[3] = "RULES"
    BY DEF Anchors, GitPlaces
  <2> HIDE DEF t
  <2>2. Elements(t) = Metadata \ {"SETTINGS"}
    BY <2>1 DEF Elements, Metadata
  <2> QED
    BY <2>1, <2>2 DEF t
<1>3. /\ <<"HEAD", "INDEX", "RULES", "SETTINGS">> \in Seq(S)
      /\ Elements(<<"HEAD", "INDEX", "RULES", "SETTINGS">>) = Metadata
  <2> DEFINE t == <<"HEAD", "INDEX", "RULES", "SETTINGS">>
  <2>1. /\ t \in Seq(S) /\ DOMAIN t = {1, 2, 3, 4}
        /\ t[1] = "HEAD" /\ t[2] = "INDEX" /\ t[3] = "RULES" /\ t[4] = "SETTINGS"
    BY DEF Anchors, GitPlaces
  <2> HIDE DEF t
  <2>2. Elements(t) = Metadata
    BY <2>1 DEF Elements, Metadata
  <2> QED
    BY <2>1, <2>2 DEF t
<1>4. \A x \in S : <<x>> \in Seq(S) /\ Elements(<<x>>) = {x}
  BY DEF Elements
<1>5. {"SETTINGS", "once", "UNLOCKED", "ROOT"} \subseteq S
  BY DEF Anchors, GitPlaces
<1>6. \A T : Sorted(T) \in Seq(S) /\ Elements(Sorted(T)) = Names \cap T
  <2>1. Names \subseteq S
    BY DEF Anchors
  <2> HIDE DEF S
  <2> QED
    BY <2>1, SortedIs
<1>7. /\ Elements(Sorted(Files)) = Files /\ Elements(Sorted(controls)) = controls
      /\ observed \in Seq(S) /\ Elements(observed) = present
  <2> HIDE DEF S
  <2>1. Files \subseteq Names /\ controls \subseteq Names /\ present \subseteq Names
    BY ViewIs, Apart
  <2>2. /\ Elements(Sorted(Files)) = Names \cap Files
        /\ Elements(Sorted(controls)) = Names \cap controls
        /\ Sorted(present) \in Seq(S) /\ Elements(Sorted(present)) = Names \cap present
    BY <1>6
  <2> QED
    BY <2>1, <2>2 DEF observed
<1> HIDE DEF S
<1>8. Tree \in Seq(S) /\ Elements(Tree) = Watched
  <2> DEFINE r == <<"ROOT">>  t == Sorted(present \cup Ancestors(present))
  <2>1. r \in Seq(S) /\ Elements(r) = {"ROOT"}
    BY <1>4, <1>5
  <2>2. t \in Seq(S) /\ Elements(t) = Names \cap (present \cup Ancestors(present))
    BY <1>6
  <2>3. Tree = r \o t
    BY DEF Tree
  <2> HIDE DEF r, t
  <2>4. r \o t \in Seq(S) /\ Elements(r \o t) = Elements(r) \cup Elements(t)
    BY <2>1, <2>2, ConcatElements
  <2> QED
    BY <2>1, <2>2, <2>3, <2>4 DEF Watched
<1>9. /\ Git \o <<"UNLOCKED">> \in Seq(S)
      /\ Elements(Git \o <<"UNLOCKED">>) = GitPlaces \cup {"UNLOCKED"}
  <2> DEFINE u == <<"UNLOCKED">>
  <2>1. u \in Seq(S) /\ Elements(u) = {"UNLOCKED"}
    BY <1>4, <1>5
  <2> HIDE DEF u
  <2>2. Git \o u \in Seq(S) /\ Elements(Git \o u) = Elements(Git) \cup Elements(u)
    BY <1>1, <2>1, ConcatElements
  <2> QED
    BY <1>1, <2>1, <2>2 DEF u
<1>10. /\ (Git \o <<"UNLOCKED">>) \o Tree \in Seq(S)
       /\ Elements((Git \o <<"UNLOCKED">>) \o Tree) = GitPlaces \cup {"UNLOCKED"} \cup Watched
  <2> DEFINE g == Git \o <<"UNLOCKED">>
  <2>1. g \in Seq(S) /\ Elements(g) = GitPlaces \cup {"UNLOCKED"}
    BY <1>9
  <2> HIDE DEF g
  <2>2. g \o Tree \in Seq(S) /\ Elements(g \o Tree) = Elements(g) \cup Elements(Tree)
    BY <1>8, <2>1, ConcatElements
  <2> QED
    BY <1>8, <2>1, <2>2 DEF g
<1>11. \A c : Over(c) \in Seq(S)
  BY <1>1, <1>2, <1>3, <1>4, <1>5, <1>6, <1>7, <1>8, <1>9, <1>10 DEF Over
<1> QED
  BY <1>1, <1>2, <1>3, <1>4, <1>5, <1>7, <1>8, <1>9, <1>10, <1>11 DEF S

\* What each command goes through.
LEMMA ElementsAt ==
  ASSUME Types
  PROVE  /\ Elements(Over(Program[1])) = {"SETTINGS"}
         /\ Elements(Over(Program[3])) = GitPlaces
         /\ Elements(Over(Program[4])) = Metadata \ {"SETTINGS"}
         /\ \A s \in {5, 29, 31} : Elements(Over(Program[s])) = GitPlaces \cup {"UNLOCKED"}
         /\ \A s \in {6, 26} : Elements(Over(Program[s])) = Files
         /\ \A s \in {7, 27} : Elements(Over(Program[s])) = controls
         /\ Elements(Over(Program[8])) = Watched
         /\ \A s \in {9, 28} : Elements(Over(Program[s])) = present
         /\ \A s \in {11, 13} : Elements(Over(Program[s])) = {"once"}
         /\ Elements(Over(Program[30])) = Metadata
         /\ \A s \in {10, 12, 14, 16, 18, 20, 22, 24, 25, 32} :
              Elements(Over(Program[s])) = GitPlaces \cup {"UNLOCKED"} \cup Watched
<1>1. /\ Program[1] = "settings" /\ Program[3] = "metaGit" /\ Program[4] = "readGit"
      /\ Program[7] = "attributes" /\ Program[8] = "metaTree" /\ Program[9] = "readTree"
      /\ Program[6] = "list" /\ Program[26] = "relist" /\ Program[27] = "reattributes"
      /\ Program[28] = "rereadTree" /\ Program[30] = "rereadGit"
      /\ Program[11] = "base" /\ Program[13] = "head"
      /\ \A s \in {5, 29, 31} : Program[s] = "verifyGit"
      /\ \A s \in {10, 12, 14, 16, 18, 20, 22, 24, 25, 32} : Program[s] = "verify"
  BY ProgramIs
<1>2. /\ Elements(Over("settings")) = {"SETTINGS"} /\ Elements(Over("metaGit")) = GitPlaces
      /\ Elements(Over("readGit")) = Metadata \ {"SETTINGS"}
      /\ Elements(Over("rereadGit")) = Metadata
      /\ Elements(Over("verifyGit")) = GitPlaces \cup {"UNLOCKED"}
      /\ Elements(Over("verify")) = GitPlaces \cup {"UNLOCKED"} \cup Watched
  BY OverIs, OverElements
<1>3. /\ Elements(Over("list")) = Files /\ Elements(Over("relist")) = Files
      /\ Elements(Over("attributes")) = controls /\ Elements(Over("reattributes")) = controls
      /\ Elements(Over("readTree")) = present /\ Elements(Over("rereadTree")) = present
      /\ Elements(Over("metaTree")) = Watched
      /\ Elements(Over("base")) = {"once"} /\ Elements(Over("head")) = {"once"}
  BY OverIs, OverElements
<1>4. /\ \A s \in {5, 29, 31} : Elements(Over(Program[s])) = GitPlaces \cup {"UNLOCKED"}
      /\ \A s \in {10, 12, 14, 16, 18, 20, 22, 24, 25, 32} :
           Elements(Over(Program[s])) = GitPlaces \cup {"UNLOCKED"} \cup Watched
  BY <1>1, <1>2
<1>5. /\ Elements(Over(Program[1])) = {"SETTINGS"} /\ Elements(Over(Program[3])) = GitPlaces
      /\ Elements(Over(Program[4])) = Metadata \ {"SETTINGS"}
      /\ Elements(Over(Program[30])) = Metadata
  BY <1>1, <1>2
<1>6. /\ \A s \in {6, 26} : Elements(Over(Program[s])) = Files
      /\ \A s \in {7, 27} : Elements(Over(Program[s])) = controls
      /\ \A s \in {9, 28} : Elements(Over(Program[s])) = present
      /\ \A s \in {11, 13} : Elements(Over(Program[s])) = {"once"}
      /\ Elements(Over(Program[8])) = Watched
  BY <1>1, <1>3
<1> QED
  BY <1>4, <1>5, <1>6

\* The current element is one of its command.
LEMMA CurrentIs ==
  ASSUME Types, at <= Len(Over(Program[step]))
  PROVE  /\ at \in DOMAIN Over(Program[step])
         /\ Current \in Elements(Over(Program[step]))
<1>1. Over(Program[step]) \in Seq(Anchors \cup {"once", "UNLOCKED"})
  BY OverElements
<1>2. at \in DOMAIN Over(Program[step])
  BY <1>1 DEF Types
<1> QED
  BY <1>2 DEF Current, Elements

\* The element after it.
LEMMA AdvancePasses ==
  ASSUME Types, at <= Len(Over(Program[step])), Advance,
         Over(Program[step])' = Over(Program[step])
  PROVE  \A s, x : Passed(s, x)' <=> Passed(s, x) \/ (s = step /\ x = Current)
<1> SUFFICES ASSUME NEW s, NEW x
             PROVE  Passed(s, x)' <=> Passed(s, x) \/ (s = step /\ x = Current)
  OBVIOUS
<1>1. step' = step /\ at' = at + 1 /\ at \in Nat \ {0} /\ at \in DOMAIN Over(Program[step])
  BY CurrentIs DEF Advance, Types
<1>2. 1..(at' - 1) = 1..(at - 1) \cup {at}
  BY <1>1
<1>3. CASE s # step
  BY <1>1, <1>3 DEF Passed
<1>4. CASE s = step
  <2>1. Over(Program[s])' = Over(Program[s])
    BY <1>1, <1>4
  <2> QED
    BY <1>1, <1>2, <1>4, <2>1 DEF Passed, Current
<1> QED
  BY <1>3, <1>4

\* The view stays what it is unless the index or the inventory changes.
LEMMA SameOver ==
  ASSUME got'["INDEX"] = got["INDEX"], untracked' = untracked, attributes' = attributes
  PROVE  /\ \A c : Over(c)' = Over(c)
         /\ tracked' = tracked /\ listed' = listed /\ present' = present
         /\ controls' = controls /\ observed' = observed /\ Watched' = Watched
         /\ Inputs' = Inputs /\ \A x : Watch(x)' = Watch(x)
<1>1. tracked' = tracked
  BY DEF tracked
<1>2. listed' = listed
  BY <1>1 DEF listed
<1>3. present' = present
  BY <1>2 DEF present
<1>4. controls' = controls
  BY <1>2 DEF controls, Ancestors
<1>5. observed' = observed /\ Tree' = Tree /\ Watched' = Watched
  BY <1>3 DEF observed, Tree, Watched, Ancestors, Sorted
<1>6. Inputs' = Inputs /\ \A x : Watch(x)' = Watch(x)
  BY <1>1, <1>3, <1>4 DEF Inputs, Said, Watch
<1>7. \A c : Over(c)' = Over(c)
  BY <1>4, <1>5 DEF Over, Sorted
<1> QED
  BY <1>1, <1>2, <1>3, <1>4, <1>5, <1>6, <1>7

\* The command after it: its elements are still to come, and all those of
\* this one have been dealt with.
LEMMA ProceedPasses ==
  ASSUME Types, Proceed
  PROVE  \A s \in 1..32 : \A x \in Elements(Over(Program[s])) : Passed(s, x)' <=> Passed(s, x)
<1> SUFFICES ASSUME NEW s \in 1..32, NEW x \in Elements(Over(Program[s]))
             PROVE  Passed(s, x)' <=> Passed(s, x)
  OBVIOUS
<1>1. step \in 1..32 /\ at \in Nat \ {0} /\ at > Len(Over(Program[step]))
  BY DEF Types, Proceed
<1>2. Over(Program[s]) \in Seq(Anchors \cup {"once", "UNLOCKED"})
  BY OverElements
<1>3. CASE step = Len(Program)
  <2>1. step' = step /\ at' = at /\ UNCHANGED copy
    BY <1>3 DEF Proceed
  <2>2. Over(Program[s])' = Over(Program[s])
    BY <2>1, SameOver DEF copy
  <2> QED
    BY <2>1, <2>2 DEF Passed
<1>4. CASE step # Len(Program)
  <2>1. step' = step + 1 /\ at' = 1
    BY <1>4 DEF Proceed
  <2>2. Passed(s, x)' <=> step >= s
    BY <1>1, <2>1 DEF Passed
  <2>3. ASSUME s = step PROVE Passed(s, x)
    <3>1. PICK k \in DOMAIN Over(Program[s]) : Over(Program[s])[k] = x
      BY DEF Elements
    <3>2. k \in 1..(at - 1)
      BY <1>1, <1>2, <2>3, <3>1
    <3> QED
      BY <2>3, <3>1, <3>2 DEF Passed
  <2>4. s < step => Passed(s, x)
    BY <1>1 DEF Passed
  <2>5. s > step => ~ Passed(s, x)
    BY <1>1 DEF Passed
  <2> QED
    BY <1>1, <2>2, <2>3, <2>4, <2>5
<1> QED
  BY <1>3, <1>4

\* Nothing is dealt with while the capture stays where it is.
LEMMA SamePassed ==
  ASSUME UNCHANGED <<got, untracked, attributes, step, at>>
  PROVE  \A s, x : Passed(s, x)' <=> Passed(s, x)
BY SameOver DEF Passed

\* What a step of the capture that leaves its view alone has dealt with: the
\* current element, if it goes on to the next one.
Passes == at <= Len(Over(Program[step])) /\ Advance
Goes == UNCHANGED <<step, at>> \/ Passes \/ Proceed

LEMMA Passing ==
  ASSUME Types, Goes, got'["INDEX"] = got["INDEX"], untracked' = untracked,
         attributes' = attributes
  PROVE  \A s \in 1..32 : \A x \in Elements(Over(Program[s])) :
           Passed(s, x)' <=> Passed(s, x) \/ (Passes /\ s = step /\ x = Current)
<1>1. CASE UNCHANGED <<step, at>>
  <2>1. ~ Passes
    BY <1>1 DEF Passes, Advance, Types
  <2> QED
    BY <1>1, <2>1, SameOver DEF Passed
<1>2. CASE Passes
  <2>1. Over(Program[step])' = Over(Program[step])
    BY <1>2, SameOver DEF Passes, Advance
  <2> QED
    BY <1>2, <2>1, AdvancePasses DEF Passes
<1>3. CASE Proceed
  <2>1. ~ Passes
    <3>1. Len(Over(Program[step])) \in Nat
      BY OverElements
    <3> QED
      BY <1>3, <3>1 DEF Passes, Proceed, Types
  <2> QED
    BY <1>3, <2>1, ProceedPasses
<1> QED
  BY <1>1, <1>2, <1>3 DEF Goes

----------------------------------------------------------------------------
(* The steps of the capture.                                               *)

\* What is read again, and where the stamp of it is compared.
LEMMA InputsAt ==
  ASSUME Types, NEW x \in Inputs
  PROVE  /\ x \in Places
         /\ x \notin Files => x \in Metadata
         /\ x \in Files \ present /\ x \in Ignored => x \in controls
         /\ ~ Unwatched(x) => Watch(x) \in Anchors /\ Watch(x) \in GitPlaces \cup Watched
         /\ Unwatched(x) => x \in {"SETTINGS", "HEAD"} \/ x \in Files \ (present \cup Ignored)
<1>1. x \in Metadata \cup Files /\ x \in Places
  BY ViewIs, Apart
<1>2. x \in Files \ present => x \in controls \/ x \notin Ignored
  <2>1. x \in Said /\ tracked \subseteq present
    BY DEF Inputs, listed, present
  <2> QED
    BY <2>1, Apart DEF Said
<1>3. Ancestors(listed) \subseteq Ancestors(present)
  BY DEF Ancestors, present
<1>4. x \in controls => DirOf[x] \in Ancestors(present)
  BY <1>3 DEF controls
<1>5. Unwatched(x) => x \in {"SETTINGS", "HEAD"} \/ x \in Files \ (present \cup Ignored)
  BY <1>2, <1>4 DEF Unwatched
<1>6. ASSUME ~ Unwatched(x) PROVE Watch(x) \in GitPlaces \cup Watched
  <2>1. CASE x \in Files \ present
    <3>1. Watch(x) = DirOf[x] /\ DirOf[x] \in Ancestors(present)
      BY <1>6, <2>1 DEF Unwatched, Watch
    <3>2. DirOf[x] \in Names \cup {"ROOT"}
      BY <2>1, CaptureConstants
    <3> QED
      BY <3>1, <3>2 DEF Watched
  <2>2. CASE x \in present
    BY <1>1, <2>2, Apart, ViewIs DEF Watch, Watched
  <2>3. CASE x \notin Files
    BY <1>1, <2>3, Apart DEF Watch
  <2> QED
    BY <2>1, <2>2, <2>3
<1>7. ~ Unwatched(x) => Watch(x) \in Anchors
  BY <1>6, ViewIs, Apart
<1> QED
  BY <1>1, <1>2, <1>5, <1>6, <1>7

\* A step that finds what is still different never makes it go unseen.
LEMMA KeptStays ==
  ASSUME UNCHANGED <<value, stamp, meta, got, untracked, attributes>>,
         NEW x, NEW w, w = Watch(x), NEW c, Kept(x, c),
         Passed(32, w)' => Passed(32, w) \/ ~ (stamp[w] > meta[w]),
         Again(x)' => Again(x) \/ value[x] = got[x]
  PROVE  Kept(x, c)'
<1>1. Watch(x)' = w
  BY SameOver
<1>2. CASE c = got[x]
  BY <1>2 DEF Kept
<1>3. CASE ~ Passed(32, w) /\ stamp[w] > meta[w]
  <2>1. ~ Passed(32, w)' /\ stamp'[w] > meta'[w]
    BY <1>3
  <2>2. PICK v : v = Watch(x)'
    OBVIOUS
  <2> QED
    BY <1>1, <2>1, <2>2 DEF Kept
<1>4. CASE ~ Again(x) /\ value[x] # got[x]
  BY <1>4 DEF Kept
<1> QED
  BY <1>2, <1>3, <1>4 DEF Kept

\* A step that only checks keeps the invariant if its check is one that
\* what is still different does not pass.
LEMMA CheckStep ==
  ASSUME CaptureInv, Running, Goes, UNCHANGED <<tree, copy>>,
         Passes =>
           /\ step \notin {1, 4, 6, 11, 13}
           /\ step = 32 /\ Current \in Anchors => ~ (stamp[Current] > meta[Current])
           /\ step \in {28, 30} => value[Current] = got[Current]
           /\ step = 27 => value[Current] = Missing \/ Current \in present
           /\ step = 26 => value[Current] = Missing \/ Current \in present \cup Ignored,
         outcome' = "CAPTURED" => Proceed
  PROVE  CaptureInv'
<1>1. /\ value' = value /\ stamp' = stamp /\ history' = history /\ anchored' = anchored
      /\ meta' = meta /\ got' = got /\ untracked' = untracked /\ attributes' = attributes
      /\ cand' = cand
  BY DEF tree, copy
<1>2. Types
  BY DEF CaptureInv
<1>3. \A s \in 1..32 : \A x \in Elements(Over(Program[s])) :
        Passed(s, x)' <=> Passed(s, x) \/ (Passes /\ s = step /\ x = Current)
  BY <1>1, <1>2, Passing
<1>4. step' \in 1..32 /\ at' \in Nat \ {0} /\ step' >= step
  <2>1. step \in 1..32 /\ at \in Nat \ {0} /\ Len(Program) = 32
    BY <1>2, ProgramIs DEF Types
  <2>2. CASE Proceed
    <3>1. \/ step' = step /\ at' = at
          \/ step # 32 /\ step' = step + 1 /\ at' = 1
      BY <2>1, <2>2 DEF Proceed
    <3> QED
      BY <2>1, <3>1
  <2>3. CASE Passes
    BY <2>1, <2>3 DEF Passes, Advance
  <2> QED
    BY <2>1, <2>2, <2>3 DEF Goes
<1>5. Types'
  BY <1>1, <1>2, <1>4 DEF Types
<1>6. /\ present' = present /\ Inputs' = Inputs /\ (\A x : Watch(x)' = Watch(x))
      /\ \A c : Over(c)' = Over(c)
  BY <1>1, SameOver
<1>7. Ordered'
  <2>1. /\ Passed(1, "SETTINGS")' <=> Passed(1, "SETTINGS")
        /\ Passed(4, "HEAD")' <=> Passed(4, "HEAD")
        /\ Passed(11, "once")' <=> Passed(11, "once")
        /\ Passed(13, "once")' <=> Passed(13, "once")
    <3>1. /\ "SETTINGS" \in Elements(Over(Program[1])) /\ "HEAD" \in Elements(Over(Program[4]))
          /\ "once" \in Elements(Over(Program[11])) /\ "once" \in Elements(Over(Program[13]))
      BY <1>2, ElementsAt DEF Metadata
    <3> QED
      BY <1>3, <3>1
  <2>2. ASSUME outcome' = "CAPTURED" PROVE step' = 32 /\ at' > Len(Over("verify"))'
    <3>1. step = 32 /\ step' = 32 /\ at' = at /\ at > Len(Over(Program[step]))
      BY <2>2, ProgramIs DEF Running, Proceed
    <3>2. Over(Program[step]) = Over("verify")
      BY <3>1, ProgramIs
    <3> QED
      BY <1>6, <3>1, <3>2
  <2>3. step \in 1..32 /\ (step' < 6 => step < 6) /\ (step' < 7 => step < 7) /\ (step' < 9 => step < 9)
    BY <1>2, <1>4 DEF Types
  <2>4. /\ step' < 6 => untracked' = {}
        /\ step' < 7 => attributes' = {}
        /\ \A p \in Files : step' < 9 \/ p \notin present => got'[p] = Missing
    BY <1>1, <2>3 DEF CaptureInv, Ordered
  <2> QED
    BY <1>1, <1>6, <2>1, <2>2, <2>4 DEF CaptureInv, Ordered
<1>8. WasThere'
  <2>1. \A p \in Files : Passed(6, p)' <=> Passed(6, p)
    BY <1>2, <1>3, ElementsAt
  <2>2. \A x, c : Ever(x, c)' <=> Ever(x, c)
    BY <1>1 DEF Ever
  <2> QED
    BY <1>1, <1>6, <2>1, <2>2 DEF CaptureInv, WasThere
<1>9. ASSUME NEW x \in Inputs
      PROVE  Again(x)' => Again(x) \/ value[x] = got[x]
  <2>1. \A p \in Files \ present : got[p] = Missing
    BY DEF CaptureInv, Ordered
  <2>2. CASE x \notin Files
    <3>1. Passed(30, x)' => Passed(30, x) \/ value[x] = got[x]
      BY <1>2, <1>3, <2>2, ElementsAt, InputsAt
    <3> QED
      BY <2>2, <3>1 DEF Again
  <2>3. CASE x \in Files /\ x \in present
    <3>1. Passed(28, x)' => Passed(28, x) \/ value[x] = got[x]
      BY <1>2, <1>3, <2>3, ElementsAt
    <3> QED
      BY <1>6, <2>3, <3>1 DEF Again
  <2>4. CASE x \in Files \ present /\ x \in Ignored
    <3>1. Passed(27, x)' => Passed(27, x) \/ value[x] = Missing
      BY <1>2, <1>3, <2>4, ElementsAt, InputsAt
    <3> QED
      BY <1>6, <2>1, <2>4, <3>1 DEF Again
  <2>5. CASE x \in Files \ present /\ x \notin Ignored
    <3>1. Passed(26, x)' => Passed(26, x) \/ value[x] = Missing
      BY <1>2, <1>3, <2>5, ElementsAt
    <3> QED
      BY <1>6, <2>1, <2>5, <3>1 DEF Again
  <2> QED
    BY <2>2, <2>3, <2>4, <2>5
<1>10. ASSUME NEW x \in Inputs, ~ Unwatched(x), NEW c, Kept(x, c)
       PROVE  Kept(x, c)'
  <2>1. PICK w : w = Watch(x)
    OBVIOUS
  <2>2. w \in Anchors /\ w \in GitPlaces \cup Watched
    BY <1>2, <1>10, <2>1, InputsAt
  <2>3. Passed(32, w)' => Passed(32, w) \/ ~ (stamp[w] > meta[w])
    BY <1>2, <1>3, <2>2, ElementsAt
  <2> QED
    BY <1>1, <1>9, <1>10, <2>1, <2>3, KeptStays
<1>11. \A x : Unwatched(x)' <=> Unwatched(x)
  BY <1>1, <1>6 DEF Unwatched, Ancestors
<1>12. ASSUME NEW k \in 1..Len(history), NEW x \in Inputs, After(x, k)
       PROVE  After(x, k)'
  <2>1. CASE Again(x)
    BY <1>1, <1>12, <2>1 DEF After
  <2>2. CASE value[x] = got[x]
    <3>1. Len(history) \in k..Len(history) /\ history[Len(history)][x] = got[x]
      BY <1>2, <2>2 DEF Types
    <3> QED
      BY <1>1, <3>1 DEF After
  <2>3. CASE ~ Again(x)'
    BY <2>3 DEF After
  <2> QED
    BY <1>9, <2>1, <2>2, <2>3
<1>13. ASSUME NEW k \in 1..Len(history), Moment(k)
       PROVE  Moment(k)'
  <2>1. ASSUME NEW x \in Inputs
        PROVE  IF Unwatched(x) THEN Before(x, k)' /\ After(x, k)' ELSE Kept(x, history[k][x])'
    <3>1. CASE Unwatched(x)
      <4>1. Before(x, k) /\ After(x, k)
        BY <1>13, <3>1 DEF Moment
      <4>2. Before(x, k)' /\ After(x, k)'
        BY <1>1, <1>12, <4>1 DEF Before
      <4> QED
        BY <3>1, <4>2
    <3>2. CASE ~ Unwatched(x)
      <4>1. PICK c : c = history[k][x]
        OBVIOUS
      <4>2. Kept(x, c)'
        BY <1>10, <1>13, <3>2, <4>1 DEF Moment
      <4> QED
        BY <1>1, <3>2, <4>1, <4>2
    <3> QED
      BY <3>1, <3>2
  <2> QED
    BY <1>1, <1>6, <1>11, <1>13, <2>1 DEF Moment
<1>14. Witnessed'
  <2>1. ASSUME cand["HEAD"] # Missing, anchored PROVE Kept("HEAD", cand["HEAD"])'
    <3>1. "HEAD" \in Inputs /\ ~ Unwatched("HEAD") /\ Kept("HEAD", cand["HEAD"])
      <4>1. ~ Unwatched("HEAD")
        BY <2>1, Apart DEF Unwatched
      <4> QED
        BY <2>1, <4>1 DEF Inputs, Said, CaptureInv, Witnessed
    <3>2. PICK c : c = cand["HEAD"]
      OBVIOUS
    <3>3. Kept("HEAD", c)'
      BY <1>10, <3>1, <3>2
    <3> QED
      BY <1>1, <3>2, <3>3
  <2> QED
    BY <1>1, <1>13, <2>1 DEF CaptureInv, Witnessed
<1> QED
  BY <1>5, <1>7, <1>8, <1>14 DEF CaptureInv

\* A step before the base is resolved.
LEMMA EarlyStep ==
  ASSUME CaptureInv, Running, step < 11, UNCHANGED <<tree, cand, step>>,
         at' = at \/ at' = at + 1, outcome' # "CAPTURED",
         meta' \in [Anchors -> Nat], \A x \in Anchors : meta'[x] <= stamp[x],
         got' \in Values,
         \A x \in Places : got'[x] = got[x] \/ got'[x] = value[x],
         \A p \in Files : step < 9 \/ p \notin present' => got'[p] = Missing,
         untracked' \in SUBSET Files, step < 6 => untracked' = {},
         attributes' \in SUBSET Files, step < 7 => attributes' = {},
         Passed(1, "SETTINGS")' => got'["SETTINGS"] # Missing,
         Passed(4, "HEAD")' => got'["HEAD"] # Missing,
         \A p \in Files \ (present' \cup Ignored) :
           Passed(6, p)' => value[p] = Missing \/ (Passed(6, p) /\ p \notin present)
  PROVE  CaptureInv'
<1>1. /\ value' = value /\ stamp' = stamp /\ history' = history /\ anchored' = anchored
      /\ cand' = cand /\ step' = step /\ step \in 1..32 /\ at \in Nat \ {0} /\ Types
  BY DEF tree, CaptureInv, Types
<1>2. Types'
  BY <1>1 DEF Types
<1>3. ~ Passed(11, "once")' /\ ~ Passed(13, "once")' /\ ~ Passed(11, "once") /\ ~ Passed(13, "once")
  BY <1>1 DEF Passed
<1>4. cand["BASE"] = Missing /\ cand["HEAD"] = Missing
  BY <1>3 DEF CaptureInv, Ordered
<1>5. Ordered'
  BY <1>1, <1>3, <1>4 DEF Ordered
<1>6. \A x : Ever(x, value[x])
  <2>1. Len(history) \in 1..Len(history) /\ value = history[Len(history)]
    BY <1>1 DEF Types
  <2> QED
    BY <2>1 DEF Ever
<1>7. \A x, c : Ever(x, c)' <=> Ever(x, c)
  BY <1>1 DEF Ever
<1>8. \A x \in Places : got'[x] # Missing => Ever(x, got'[x])
  BY <1>6 DEF CaptureInv, WasThere
<1>9. ASSUME NEW p \in Files \ (present' \cup Ignored), Passed(6, p)' PROVE Ever(p, Missing)
  <2>1. CASE value[p] = Missing
    BY <1>6, <2>1
  <2>2. CASE Passed(6, p) /\ p \notin present
    BY <2>2 DEF CaptureInv, WasThere
  <2> QED
    BY <1>9, <2>1, <2>2
<1>10. WasThere'
  <2>1. \A x \in Places : got'[x] # Missing => Ever(x, got[x])'
    <3> SUFFICES ASSUME NEW x \in Places, got'[x] # Missing PROVE Ever(x, got[x])'
      OBVIOUS
    <3>1. PICK c : c = got'[x]
      OBVIOUS
    <3>2. Ever(x, c)'
      BY <1>7, <1>8, <3>1
    <3> QED
      BY <3>1, <3>2
  <2>2. \A p \in Files \ (present' \cup Ignored) : Passed(6, p)' => Ever(p, Missing)'
    BY <1>7, <1>9
  <2> QED
    BY <2>1, <2>2 DEF WasThere
<1>11. Witnessed'
  BY <1>1, <1>4 DEF Witnessed
<1> QED
  BY <1>2, <1>5, <1>10, <1>11 DEF CaptureInv

\* What TakeStamp, ReadGit, ReadTree, List and Attributes are at.
LEMMA ReadsAt ==
  ASSUME Types, at <= Len(Over(Program[step]))
  PROVE  /\ Program[step] \in {"metaGit", "metaTree"} =>
              /\ \/ step = 3 /\ Current \in GitPlaces
                 \/ step = 8 /\ Current \in Watched
              /\ Current \in Anchors
         /\ Program[step] \in {"settings", "readGit"} =>
              \/ step = 1 /\ Current = "SETTINGS"
              \/ step = 4 /\ Current \in Metadata \ {"SETTINGS"}
         /\ Program[step] \in {"readTree"} => step = 9 /\ Current \in present
         /\ Program[step] \in {"list"} => step = 6 /\ Current \in Files
         /\ Program[step] \in {"attributes"} => step = 7 /\ Current \in controls
<1>1. step \in 1..32 /\ Current \in Elements(Over(Program[step]))
  BY CurrentIs DEF Types
<1>2. /\ Program[step] = "metaGit" => step = 3
      /\ Program[step] = "metaTree" => step = 8
      /\ Program[step] = "settings" => step = 1
      /\ Program[step] = "readGit" => step = 4
      /\ Program[step] = "readTree" => step = 9
      /\ Program[step] = "list" => step = 6
      /\ Program[step] = "attributes" => step = 7
  BY <1>1, ProgramIs
<1>3. /\ step = 3 => Current \in GitPlaces
      /\ step = 8 => Current \in Watched
      /\ step = 1 => Current = "SETTINGS"
      /\ step = 4 => Current \in Metadata \ {"SETTINGS"}
      /\ step = 9 => Current \in present
      /\ step = 6 => Current \in Files
      /\ step = 7 => Current \in controls
  BY <1>1, ElementsAt
<1>4. Current \in GitPlaces \/ Current \in Watched => Current \in Anchors
  BY ViewIs, Apart
<1>5. Program[step] \in {"metaGit", "metaTree"} =>
        /\ \/ step = 3 /\ Current \in GitPlaces
           \/ step = 8 /\ Current \in Watched
        /\ Current \in Anchors
  BY <1>2, <1>3, <1>4
<1>6. Program[step] \in {"settings", "readGit"} =>
        \/ step = 1 /\ Current = "SETTINGS"
        \/ step = 4 /\ Current \in Metadata \ {"SETTINGS"}
  BY <1>2, <1>3
<1> QED
  BY <1>2, <1>3, <1>5, <1>6

\* The stamps before the reads.
LEMMA TakeStampKeeps ==
  ASSUME CaptureInv, TakeStamp
  PROVE  CaptureInv'
<1>1. /\ Running /\ at <= Len(Over(Program[step])) /\ Program[step] \in {"metaGit", "metaTree"}
      /\ Advance /\ step' = step /\ at' = at + 1 /\ outcome' = outcome
      /\ UNCHANGED <<tree, cand>> /\ got' = got /\ untracked' = untracked
      /\ attributes' = attributes
      /\ meta' = [meta EXCEPT ![Current] = stamp[Current]]
  BY DEF TakeStamp, Now, Advance
<1>2. Types
  BY DEF CaptureInv
<1>3. step \in {3, 8} /\ Current \in Anchors
  BY <1>1, <1>2, ReadsAt
<1>4. meta' \in [Anchors -> Nat] /\ \A x \in Anchors : meta'[x] <= stamp[x]
  BY <1>1, <1>2, <1>3 DEF Types
<1>5. present' = present
  BY <1>1, SameOver
<1>6. \A s \in {1, 4, 6} : \A x : Passed(s, x)' <=> Passed(s, x)
  BY <1>1, <1>3 DEF Passed
<1>7. /\ Passed(1, "SETTINGS")' => got'["SETTINGS"] # Missing
      /\ Passed(4, "HEAD")' => got'["HEAD"] # Missing
      /\ \A p \in Files : step < 9 \/ p \notin present' => got'[p] = Missing
      /\ (step < 6 => untracked' = {}) /\ (step < 7 => attributes' = {})
  BY <1>1, <1>5, <1>6 DEF CaptureInv, Ordered
<1>8. /\ got' \in Values /\ untracked' \in SUBSET Files /\ attributes' \in SUBSET Files
      /\ \A x \in Places : got'[x] = got[x]
  BY <1>1, <1>2 DEF Types
<1>9. \A p \in Files \ (present' \cup Ignored) :
        Passed(6, p)' => value[p] = Missing \/ (Passed(6, p) /\ p \notin present)
  BY <1>5, <1>6
<1> QED
  BY <1>1, <1>3, <1>4, <1>7, <1>8, <1>9, EarlyStep DEF Running

\* The settings, HEAD, the index and the rules.
LEMMA ReadGitKeeps ==
  ASSUME CaptureInv, ReadGit
  PROVE  CaptureInv'
<1>1. /\ Running /\ at <= Len(Over(Program[step])) /\ Program[step] \in {"settings", "readGit"}
      /\ step' = step /\ (at' = at \/ at' = at + 1) /\ outcome' # "CAPTURED"
      /\ UNCHANGED <<tree, cand>> /\ meta' = meta /\ untracked' = untracked
      /\ attributes' = attributes
      /\ got' = [got EXCEPT ![Current] = value[Current]]
  BY DEF ReadGit, Now, Advance, Refuse, Running
<1>2. Types /\ at \in Nat \ {0}
  BY DEF CaptureInv, Types
<1>3. /\ \/ step = 1 /\ Current = "SETTINGS"
         \/ step = 4 /\ Current \in Metadata \ {"SETTINGS"}
      /\ Current \in Metadata
  BY <1>1, <1>2, ReadsAt DEF Metadata
<1>4. /\ got' \in Values
      /\ \A x \in Places : got'[x] = IF x = Current THEN value[x] ELSE got[x]
  BY <1>1, <1>2, <1>3, Apart DEF Types, Values
<1>5. \A x : Passed(step, x)' => Passed(step, x) \/ x = Current
  <2> SUFFICES ASSUME NEW x, Passed(step, x)', x # Current PROVE Passed(step, x)
    OBVIOUS
  <2>1. Over(Program[step])' = Over(Program[step])
    BY <1>1 DEF Over
  <2>2. PICK k \in 1..(at' - 1) : k \in DOMAIN Over(Program[step]) /\ Over(Program[step])[k] = x
    <3>1. ~ (step' > step)
      BY <1>1, <1>3
    <3>2. PICK s : s = step
      OBVIOUS
    <3>3. Passed(s, x)'
      BY <1>1, <3>2
    <3> QED
      BY <1>1, <2>1, <3>1, <3>2, <3>3 DEF Passed
  <2>3. k # at
    BY <2>2 DEF Current
  <2>4. k \in 1..(at - 1)
    BY <1>1, <1>2, <2>2, <2>3
  <2> QED
    BY <2>2, <2>4 DEF Passed
<1>6. value["SETTINGS"] # Missing /\ value["HEAD"] # Missing
  BY <1>2 DEF Types, Solid
<1>7. Passed(1, "SETTINGS")' => got'["SETTINGS"] # Missing
  <2>1. CASE Current = "SETTINGS"
    BY <1>4, <1>6, <2>1, Apart DEF Metadata
  <2>2. CASE Current # "SETTINGS"
    <3>1. step = 4 /\ Passed(1, "SETTINGS")
      BY <1>3, <2>2 DEF Passed
    <3>2. got["SETTINGS"] # Missing
      BY <3>1 DEF CaptureInv, Ordered
    <3> QED
      BY <1>4, <2>2, <3>2, Apart DEF Metadata
  <2> QED
    BY <2>1, <2>2
<1>8. Passed(4, "HEAD")' => got'["HEAD"] # Missing
  <2>1. CASE Current = "HEAD"
    BY <1>4, <1>6, <2>1, Apart DEF Metadata
  <2>2. CASE step = 1
    BY <1>1, <2>2 DEF Passed
  <2>3. CASE step = 4 /\ Current # "HEAD"
    <3>1. Passed(4, "HEAD")' => Passed(4, "HEAD")
      <4>1. PICK s : s = step
        OBVIOUS
      <4>2. Passed(s, "HEAD")' => Passed(s, "HEAD")
        BY <1>1, <1>5, <2>3, <4>1
      <4> QED
        BY <2>3, <4>1, <4>2
    <3>2. Passed(4, "HEAD")' => got["HEAD"] # Missing
      BY <3>1 DEF CaptureInv, Ordered
    <3> QED
      BY <1>4, <2>3, <3>2, Apart DEF Metadata
  <2> QED
    BY <1>3, <2>1, <2>2, <2>3
<1>9. \A p \in Files : got'[p] = Missing
  <2>1. \A p \in Files : got[p] = Missing /\ p # Current /\ p \in Places
    BY <1>3, Apart DEF CaptureInv, Ordered
  <2> QED
    BY <1>4, <2>1
<1>10. /\ untracked' \in SUBSET Files /\ attributes' \in SUBSET Files
       /\ (step < 6 => untracked' = {}) /\ (step < 7 => attributes' = {})
       /\ meta' \in [Anchors -> Nat] /\ \A x \in Anchors : meta'[x] <= stamp[x]
  BY <1>1, <1>2 DEF CaptureInv, Types, Ordered
<1>11. \A p : ~ Passed(6, p)'
  BY <1>1, <1>3 DEF Passed
<1>12. \A x \in Places : got'[x] = got[x] \/ got'[x] = value[x]
  BY <1>4
<1>13. step < 11
  BY <1>3
<1> QED
  BY <1>1, <1>4, <1>7, <1>8, <1>9, <1>10, <1>11, <1>12, <1>13, EarlyStep

\* The files.
LEMMA ReadTreeKeeps ==
  ASSUME CaptureInv, ReadTree
  PROVE  CaptureInv'
<1>1. /\ Running /\ at <= Len(Over(Program[step])) /\ Program[step] \in {"readTree"}
      /\ step' = step /\ (at' = at \/ at' = at + 1) /\ outcome' # "CAPTURED"
      /\ UNCHANGED <<tree, cand>> /\ meta' = meta /\ untracked' = untracked
      /\ attributes' = attributes
      /\ got' = [got EXCEPT ![Current] = value[Current]]
  BY DEF ReadTree, Now, Advance, Refuse, Running
<1>2. Types
  BY DEF CaptureInv
<1>3. step = 9 /\ Current \in present /\ Current \in Files
  BY <1>1, <1>2, ReadsAt, ViewIs
<1>4. /\ got' \in Values
      /\ \A x \in Places : got'[x] = IF x = Current THEN value[x] ELSE got[x]
  BY <1>1, <1>2, <1>3, Apart DEF Types, Values
<1>5. got'["INDEX"] = got["INDEX"] /\ got'["HEAD"] = got["HEAD"]
      /\ got'["SETTINGS"] = got["SETTINGS"]
  BY <1>3, <1>4, Apart DEF Metadata
<1>6. present' = present
  BY <1>1, <1>5, SameOver
<1>7. \A s \in {1, 4, 6} : \A x : Passed(s, x)' /\ Passed(s, x)
  BY <1>1, <1>3 DEF Passed
<1>8. /\ got'["SETTINGS"] # Missing /\ got'["HEAD"] # Missing
      /\ \A p \in Files : p \notin present => got'[p] = Missing
  <2>1. got["SETTINGS"] # Missing /\ got["HEAD"] # Missing
    BY <1>7 DEF CaptureInv, Ordered
  <2>2. \A p \in Files : p \notin present => got[p] = Missing /\ p # Current /\ p \in Places
    BY <1>3, Apart DEF CaptureInv, Ordered
  <2> QED
    BY <1>4, <1>5, <2>1, <2>2
<1>9. /\ untracked' \in SUBSET Files /\ attributes' \in SUBSET Files
      /\ meta' \in [Anchors -> Nat] /\ \A x \in Anchors : meta'[x] <= stamp[x]
  BY <1>1, <1>2 DEF Types
<1>10. \A x \in Places : got'[x] = got[x] \/ got'[x] = value[x]
  BY <1>4
<1>11. /\ ~ (step < 6) /\ ~ (step < 7) /\ ~ (step < 9) /\ step < 11
       /\ \A p \in Files \ (present' \cup Ignored) :
            Passed(6, p)' => value[p] = Missing \/ (Passed(6, p) /\ p \notin present)
  BY <1>3, <1>6, <1>7
<1> QED
  BY <1>1, <1>4, <1>6, <1>8, <1>9, <1>10, <1>11, EarlyStep

\* The inventory.
LEMMA ListKeeps ==
  ASSUME CaptureInv, List
  PROVE  CaptureInv'
<1>1. /\ Running /\ at <= Len(Over(Program[step])) /\ Program[step] \in {"list"}
      /\ step' = step /\ (at' = at \/ at' = at + 1) /\ outcome' # "CAPTURED"
      /\ UNCHANGED <<tree, cand>> /\ meta' = meta /\ got' = got /\ attributes' = attributes
      /\ untracked' = IF Untracked(Current) THEN untracked \cup {Current} ELSE untracked
  BY DEF List, Now, Advance, Refuse, Running
<1>2. Types /\ at \in Nat \ {0}
  BY DEF CaptureInv, Types
<1>3. step = 6 /\ Current \in Files
  BY <1>1, <1>2, ReadsAt
<1>4. /\ got' \in Values /\ untracked' \in SUBSET Files /\ attributes' \in SUBSET Files
      /\ \A x \in Places : got'[x] = got[x]
      /\ meta' \in [Anchors -> Nat] /\ \A x \in Anchors : meta'[x] <= stamp[x]
  BY <1>1, <1>2, <1>3 DEF Types
<1>5. \A s \in {1, 4} : \A x : Passed(s, x)' /\ Passed(s, x)
  BY <1>1, <1>3 DEF Passed
<1>6. /\ got'["SETTINGS"] # Missing /\ got'["HEAD"] # Missing /\ attributes' = {}
      /\ \A p \in Files : got'[p] = Missing
  BY <1>1, <1>3, <1>5 DEF CaptureInv, Ordered
<1>7. tracked' = tracked
  BY <1>1 DEF tracked
<1>8. ASSUME NEW p \in Files \ (present' \cup Ignored), Passed(6, p)'
      PROVE  value[p] = Missing \/ (Passed(6, p) /\ p \notin present)
  <2>1. p \notin tracked /\ p \notin untracked' /\ p \notin attributes'
    BY <1>7 DEF present, listed
  <2>2. CASE p = Current
    BY <1>1, <1>8, <2>1, <2>2 DEF Untracked
  <2>3. CASE p # Current
    <3>1. p \notin present
      BY <1>1, <2>1 DEF present, listed
    <3>2. PICK k \in 1..(at' - 1) : k \in DOMAIN Over("list")' /\ Over("list")'[k] = p
      BY <1>1, <1>3, <1>8, ProgramIs DEF Passed
    <3>3. Over("list")' = Over(Program[6]) /\ Program[6] = "list"
      <4>1. Program[6] = "list"
        BY ProgramIs
      <4> QED
        BY <4>1 DEF Over
    <3>4. k # at
      BY <1>3, <2>3, <3>2, <3>3 DEF Current
    <3>5. k \in 1..(at - 1)
      BY <1>1, <1>2, <3>2, <3>4
    <3>6. Passed(6, p)
      BY <1>3, <3>2, <3>3, <3>5 DEF Passed
    <3> QED
      BY <3>1, <3>6
  <2> QED
    BY <2>2, <2>3
<1>9. ~ (step < 6) /\ step < 11
  BY <1>3
<1> QED
  BY <1>1, <1>4, <1>6, <1>8, <1>9, EarlyStep

\* The control files.
LEMMA AttributesKeep ==
  ASSUME CaptureInv, Attributes
  PROVE  CaptureInv'
<1>1. /\ Running /\ at <= Len(Over(Program[step])) /\ Program[step] \in {"attributes"}
      /\ step' = step /\ (at' = at \/ at' = at + 1) /\ outcome' # "CAPTURED"
      /\ UNCHANGED <<tree, cand>> /\ meta' = meta /\ got' = got /\ untracked' = untracked
      /\ attributes' \in {attributes, attributes \cup {Current}}
  BY DEF Attributes, Now, Advance, Refuse, Running
<1>2. Types
  BY DEF CaptureInv
<1>3. step = 7 /\ Current \in Files
  BY <1>1, <1>2, ReadsAt, ViewIs
<1>4. /\ got' \in Values /\ untracked' \in SUBSET Files /\ attributes' \in SUBSET Files
      /\ \A x \in Places : got'[x] = got[x]
      /\ meta' \in [Anchors -> Nat] /\ \A x \in Anchors : meta'[x] <= stamp[x]
  BY <1>1, <1>2, <1>3 DEF Types
<1>5. \A s \in {1, 4, 6} : \A x : Passed(s, x)' /\ Passed(s, x)
  BY <1>1, <1>3 DEF Passed
<1>6. /\ got'["SETTINGS"] # Missing /\ got'["HEAD"] # Missing
      /\ \A p \in Files : got'[p] = Missing
  BY <1>1, <1>3, <1>5 DEF CaptureInv, Ordered
<1>7. tracked' = tracked
  BY <1>1 DEF tracked
<1>8. present \subseteq present'
  BY <1>1, <1>7 DEF present, listed
<1>9. /\ ~ (step < 6) /\ ~ (step < 7) /\ step < 11
      /\ \A p \in Files \ (present' \cup Ignored) : Passed(6, p) /\ p \notin present
  BY <1>3, <1>5, <1>8
<1> QED
  BY <1>1, <1>4, <1>6, <1>9, EarlyStep

\* The steps that only check.
LEMMA ChecksKeep ==
  ASSUME CaptureInv,
         \/ ReadBranch \/ Open \/ VerifyMetadata \/ Diff \/ Reread \/ Relist \/ Reattributes
         \/ Proceed \/ CommandFails \/ OverBudget
  PROVE  CaptureInv'
<1>1. /\ Types /\ step \in 1..32 /\ at \in Nat \ {0}
  BY DEF CaptureInv, Types
<1>2. CASE Open \/ CommandFails \/ OverBudget
  <2>1. /\ Running /\ UNCHANGED <<tree, copy, step, at>> /\ outcome' # "CAPTURED"
    BY <1>2 DEF Open, CommandFails, OverBudget, Fail, Now, Running
  <2>2. Goes /\ ~ Passes
    BY <1>1, <2>1 DEF Goes, Passes, Advance
  <2> QED
    BY <2>1, <2>2, CheckStep
<1>3. CASE Proceed
  <2>1. Running /\ UNCHANGED <<tree, copy>> /\ Goes
    BY <1>3 DEF Proceed, Goes
  <2>2. ~ Passes
    <3>1. Len(Over(Program[step])) \in Nat
      BY <1>1, OverElements
    <3> QED
      BY <1>1, <1>3, <3>1 DEF Passes, Proceed
  <2> QED
    BY <1>3, <2>1, <2>2, CheckStep
<1>4. CASE VerifyMetadata
  <2>1. /\ Running /\ UNCHANGED <<tree, copy>> /\ outcome' # "CAPTURED" /\ Goes
        /\ Passes => IF Current = "UNLOCKED" THEN value["LOCK"] = Missing
                     ELSE stamp[Current] = meta[Current]
        /\ Program[step] \in {"verify", "verifyGit"}
    BY <1>1, <1>4 DEF VerifyMetadata, Now, Compare, Refuse, Advance, Goes, Passes, Running
  <2>2. step \notin {1, 4, 6, 11, 13, 26, 27, 28, 30}
    BY <1>1, <2>1, ProgramIs
  <2>3. ASSUME Passes, Current \in Anchors PROVE ~ (stamp[Current] > meta[Current])
    <3>1. stamp[Current] = meta[Current]
      BY <2>1, <2>3, Apart
    <3>2. stamp[Current] \in Nat /\ meta[Current] \in Nat
      BY <1>1, <2>3 DEF Types
    <3> QED
      BY <3>1, <3>2
  <2> QED
    BY <2>1, <2>2, <2>3, CheckStep
<1>5. CASE Diff \/ ReadBranch
  <2>1. /\ Running /\ UNCHANGED <<tree, copy>> /\ outcome' # "CAPTURED" /\ Goes
        /\ Program[step] \in {"diff", "branch"}
    BY <1>5 DEF Diff, ReadBranch, Now, Advance, Goes, Passes, Running
  <2>2. step \in {2, 15, 21}
    BY <1>1, <2>1, ProgramIs
  <2> QED
    BY <2>1, <2>2, CheckStep
<1>6. CASE Reread
  <2>1. /\ Running /\ UNCHANGED <<tree, copy>> /\ outcome' # "CAPTURED" /\ Goes
        /\ Passes => value[Current] = got[Current]
        /\ Program[step] \in {"rereadTree", "rereadGit"}
    BY <1>1, <1>6 DEF Reread, Now, Compare, Refuse, Advance, Goes, Passes, Running
  <2>2. step \in {28, 30}
    BY <1>1, <2>1, ProgramIs
  <2> QED
    BY <2>1, <2>2, CheckStep
<1>7. CASE Relist
  <2>1. /\ Running /\ UNCHANGED <<tree, copy>> /\ outcome' # "CAPTURED" /\ Goes
        /\ Passes => (Untracked(Current) <=> Current \in untracked)
        /\ Program[step] = "relist"
    BY <1>1, <1>7 DEF Relist, Now, Compare, Refuse, Advance, Goes, Passes, Running
  <2>2. step = 26
    BY <1>1, <2>1, ProgramIs
  <2>3. Passes => value[Current] = Missing \/ Current \in present \cup Ignored
    BY <2>1 DEF Untracked, present, listed
  <2> QED
    BY <2>1, <2>2, <2>3, CheckStep
<1>8. CASE Reattributes
  <2>1. /\ Running /\ UNCHANGED <<tree, copy>> /\ outcome' # "CAPTURED" /\ Goes
        /\ Passes => ((value[Current] # Missing) <=> Current \in attributes)
        /\ Program[step] = "reattributes"
    BY <1>1, <1>8 DEF Reattributes, Now, Compare, Refuse, Advance, Goes, Passes, Running
  <2>2. step = 27
    BY <1>1, <2>1, ProgramIs
  <2>3. Passes => value[Current] = Missing \/ Current \in present
    BY <2>1 DEF present
  <2> QED
    BY <2>1, <2>2, <2>3, CheckStep
<1> QED
  BY <1>2, <1>3, <1>4, <1>5, <1>6, <1>7, <1>8

\* The moment: the base is resolved.
LEMMA BaseKeeps ==
  ASSUME CaptureInv, Running, step = 11, at <= Len(Over(Program[step])), Advance,
         UNCHANGED <<tree, meta, got, untracked, attributes>>, cand["BASE"] = Missing,
         cand' = [cand EXCEPT !["BASE"] = value["BASE"]]
  PROVE  CaptureInv'
<1>1. /\ value' = value /\ stamp' = stamp /\ history' = history /\ anchored' = anchored
      /\ meta' = meta /\ got' = got /\ untracked' = untracked /\ attributes' = attributes
      /\ step' = 11 /\ at' = at + 1 /\ outcome' = "RUNNING" /\ Types
  BY DEF tree, Advance, CaptureInv, Running
<1>2. /\ cand'["BASE"] = value["BASE"] /\ cand'["HEAD"] = cand["HEAD"]
      /\ DOMAIN cand' = {"BASE", "HEAD"} /\ value["BASE"] # Missing
  BY <1>1 DEF Types, Solid
<1>3. Types'
  BY <1>1, <1>2 DEF Types
<1>4. Passed(11, "once")'
  <2>1. Current = "once"
    BY <1>1, CurrentIs, ElementsAt
  <2>2. Over(Program[step])' = Over(Program[step])
    BY <1>1, SameOver
  <2> QED
    BY <1>1, <2>1, <2>2, AdvancePasses
<1>5. /\ \A s \in 1..10 : \A x : Passed(s, x)' /\ Passed(s, x)
      /\ \A s \in 12..32 : \A x : ~ Passed(s, x)' /\ ~ Passed(s, x)
  BY <1>1 DEF Passed
<1>6. present' = present /\ Inputs' = Inputs
  BY <1>1, SameOver
<1>7. Ordered'
  BY <1>1, <1>2, <1>4, <1>5, <1>6 DEF CaptureInv, Ordered
<1>8. WasThere'
  <2>1. \A x, c : Ever(x, c)' <=> Ever(x, c)
    BY <1>1 DEF Ever
  <2> QED
    BY <1>1, <1>5, <1>6, <2>1 DEF CaptureInv, WasThere
<1>9. Witnessed'
  <2>1. PICK k : k = Len(history)
    OBVIOUS
  <2>2. k \in 1..Len(history) /\ history[k] = value
    BY <1>1, <2>1 DEF Types
  <2>3. ASSUME NEW x \in Inputs
        PROVE  IF Unwatched(x)' THEN Before(x, k)' /\ After(x, k)' ELSE Kept(x, history[k][x])'
    <3>1. \A s \in {26, 27, 28, 30} : ~ Passed(s, x)'
      BY <1>5
    <3>2. ~ Again(x)'
      BY <3>1 DEF Again
    <3>3. Kept(x, history[k][x])'
      BY <1>1, <2>2, <3>2 DEF Kept
    <3>4. Unwatched(x)' <=> Unwatched(x)
      BY <1>1, <1>6 DEF Unwatched, Ancestors
    <3>5. ASSUME Unwatched(x) PROVE Before(x, k)
      <4>1. Ever(x, got[x])
        <5>1. CASE x = "SETTINGS" \/ x = "HEAD"
          <6>1. got[x] # Missing /\ x \in Places
            BY <1>5, <5>1, Apart DEF CaptureInv, Ordered, Metadata
          <6> QED
            BY <6>1 DEF CaptureInv, WasThere
        <5>2. CASE x \in Files \ (present \cup Ignored)
          <6>1. got[x] = Missing /\ Passed(6, x)
            BY <1>5, <5>2 DEF CaptureInv, Ordered
          <6> QED
            BY <5>2, <6>1 DEF CaptureInv, WasThere
        <5> QED
          BY <1>1, <3>5, <5>1, <5>2, InputsAt
      <4> QED
        BY <2>1, <4>1 DEF Ever, Before
    <3>6. Unwatched(x)' => Before(x, k)' /\ After(x, k)'
      BY <1>1, <3>2, <3>4, <3>5 DEF Before, After
    <3> QED
      BY <3>3, <3>6
  <2>4. Moment(k)'
    BY <1>1, <1>2, <1>6, <2>2, <2>3 DEF Moment
  <2>5. cand'["HEAD"] = Missing
    BY <1>2, <1>5 DEF CaptureInv, Ordered
  <2> QED
    BY <1>1, <2>2, <2>4, <2>5 DEF Witnessed
<1> QED
  BY <1>3, <1>7, <1>8, <1>9 DEF CaptureInv

\* HEAD is resolved for the first time.
LEMMA HeadKeeps ==
  ASSUME CaptureInv, Running, step = 13, at <= Len(Over(Program[step])), Advance,
         UNCHANGED <<tree, meta, got, untracked, attributes>>, cand["HEAD"] = Missing,
         cand' = [cand EXCEPT !["HEAD"] = value["HEAD"]]
  PROVE  CaptureInv'
<1>1. /\ value' = value /\ stamp' = stamp /\ history' = history /\ anchored' = anchored
      /\ meta' = meta /\ got' = got /\ untracked' = untracked /\ attributes' = attributes
      /\ step' = 13 /\ at' = at + 1 /\ outcome' = "RUNNING" /\ Types
  BY DEF tree, Advance, CaptureInv, Running
<1>2. /\ cand'["HEAD"] = value["HEAD"] /\ cand'["BASE"] = cand["BASE"]
      /\ DOMAIN cand' = {"BASE", "HEAD"} /\ value["HEAD"] # Missing
  BY <1>1 DEF Types, Solid
<1>3. Types'
  BY <1>1, <1>2 DEF Types
<1>4. Passed(13, "once")'
  <2>1. Current = "once"
    BY <1>1, CurrentIs, ElementsAt
  <2>2. Over(Program[step])' = Over(Program[step])
    BY <1>1, SameOver
  <2> QED
    BY <1>1, <2>1, <2>2, AdvancePasses
<1>5. /\ \A s \in 1..12 : \A x : Passed(s, x)' /\ Passed(s, x)
      /\ \A s \in 14..32 : \A x : ~ Passed(s, x)' /\ ~ Passed(s, x)
  BY <1>1 DEF Passed
<1>6. present' = present /\ Inputs' = Inputs /\ \A x : Watch(x)' = Watch(x)
  BY <1>1, SameOver
<1>7. Ordered'
  BY <1>1, <1>2, <1>4, <1>5, <1>6 DEF CaptureInv, Ordered
<1>8. WasThere'
  <2>1. \A x, c : Ever(x, c)' <=> Ever(x, c)
    BY <1>1 DEF Ever
  <2> QED
    BY <1>1, <1>5, <1>6, <2>1 DEF CaptureInv, WasThere
<1>9. \A x : ~ Again(x)' /\ ~ Again(x)
  <2>1. \A x : \A s \in {26, 27, 28, 30} : ~ Passed(s, x)' /\ ~ Passed(s, x)
    BY <1>5
  <2> QED
    BY <2>1 DEF Again
<1>10. Witnessed'
  <2>1. PICK k \in 1..Len(history) : Moment(k)
    BY <1>5 DEF CaptureInv, Ordered, Witnessed
  <2>2. ASSUME NEW x \in Inputs
        PROVE  IF Unwatched(x)' THEN Before(x, k)' /\ After(x, k)' ELSE Kept(x, history[k][x])'
    <3>1. Unwatched(x)' <=> Unwatched(x)
      BY <1>1, <1>6 DEF Unwatched, Ancestors
    <3>2. CASE Unwatched(x)
      <4>1. Before(x, k)
        BY <2>1, <3>2 DEF Moment
      <4> QED
        BY <1>1, <1>9, <3>1, <3>2, <4>1 DEF Before, After
    <3>3. CASE ~ Unwatched(x)
      <4>1. PICK c : c = history[k][x]
        OBVIOUS
      <4>2. PICK w : w = Watch(x)
        OBVIOUS
      <4>3. Kept(x, c)'
        BY <1>1, <1>5, <1>9, <2>1, <3>3, <4>1, <4>2, KeptStays DEF Moment
      <4> QED
        BY <1>1, <3>1, <3>3, <4>1, <4>3
    <3> QED
      BY <3>2, <3>3
  <2>3. Moment(k)'
    BY <1>1, <1>2, <1>6, <2>1, <2>2 DEF Moment
  <2>4. \A c : c = value["HEAD"] => Kept("HEAD", c)'
    BY <1>1, <1>9 DEF Kept
  <2>5. Kept("HEAD", cand["HEAD"])'
    <3>1. PICK c : c = value["HEAD"]
      OBVIOUS
    <3>2. Kept("HEAD", c)'
      BY <2>4, <3>1
    <3> QED
      BY <1>2, <3>1, <3>2
  <2> QED
    BY <1>1, <2>1, <2>3, <2>5 DEF Witnessed
<1> QED
  BY <1>3, <1>7, <1>8, <1>10 DEF CaptureInv

\* The references of the candidates.
LEMMA ResolveKeeps ==
  ASSUME CaptureInv, Resolve
  PROVE  CaptureInv'
<1> DEFINE x == IF Program[step] = "base" THEN "BASE" ELSE "HEAD"
<1>1. /\ Running /\ at <= Len(Over(Program[step])) /\ Program[step] \in {"base", "head"}
      /\ UNCHANGED <<tree, meta, got, untracked, attributes>>
      /\ \/ cand[x] = Missing /\ cand' = [cand EXCEPT ![x] = value[x]] /\ Advance
         \/ cand[x] # Missing /\ Compare(value[x] = cand[x]) /\ UNCHANGED cand
  BY DEF Resolve, Now
<1>2. Types /\ step \in 1..32 /\ at \in Nat \ {0}
  BY DEF CaptureInv, Types
<1>3. /\ step \in {11, 17, 13, 19, 23}
      /\ Program[step] = "base" <=> step \in {11, 17}
  BY <1>1, <1>2, ProgramIs
<1>4. /\ step = 11 => ~ Passed(11, "once")
      /\ step = 13 => ~ Passed(13, "once")
  <2>1. Over(Program[step]) = <<"once">>
    BY <1>1, OverIs
  <2>2. at = 1
    BY <1>1, <1>2, <2>1
  <2> QED
    BY <2>2 DEF Passed
<1>5. /\ step = 11 => cand["BASE"] = Missing
      /\ step = 13 => cand["HEAD"] = Missing
      /\ step = 17 => cand["BASE"] # Missing
      /\ step \in {19, 23} => cand["HEAD"] # Missing
  BY <1>4 DEF CaptureInv, Ordered, Passed
<1>6. CASE step = 11
  BY <1>1, <1>3, <1>5, <1>6, BaseKeeps
<1>7. CASE step = 13
  BY <1>1, <1>3, <1>5, <1>7, HeadKeeps
<1>8. CASE step \in {17, 19, 23}
  <2>1. /\ Compare(value[x] = cand[x]) /\ UNCHANGED cand
    BY <1>1, <1>3, <1>5, <1>8
  <2>2. Goes /\ outcome' # "CAPTURED"
    BY <1>1, <2>1 DEF Compare, Refuse, Advance, Goes, Passes, Running
  <2>3. UNCHANGED <<tree, copy>>
    BY <1>1, <2>1 DEF copy
  <2> QED
    BY <1>1, <1>8, <2>2, <2>3, CheckStep
<1> QED
  BY <1>3, <1>6, <1>7, <1>8

----------------------------------------------------------------------------
(* The edits of other programs.                                            *)

\* A place is written: the moment stays what it was, for what was different
\* already the write leaves a later stamp, or a content that was never read,
\* unless no stamp of it is compared.
LEMMA Overwritten ==
  ASSUME CaptureInv, NEW x \in Places, NEW c \in Contents \cup {Missing},
         c = Missing => x \notin Solid, Changed(x, c), stamp' \in [Anchors -> Nat \ {0}],
         \A y \in Anchors : stamp'[y] >= stamp[y],
         anchored' \in BOOLEAN, anchored' => anchored, step > 3 => anchored' = anchored,
         \/ c # Missing /\ \A k \in DOMAIN history : history[k][x] # c
         \/ x \notin Files /\ Unwatched(x)
         \/ /\ x \in Anchors => stamp'[x] > stamp[x]
            /\ x \in Files /\ c = Missing => stamp'[DirOf[x]] > stamp[DirOf[x]]
  PROVE  CaptureInv'
<1>1. /\ value' = [value EXCEPT ![x] = c] /\ history' = Append(history, value')
      /\ step' = step /\ at' = at /\ meta' = meta /\ got' = got
      /\ untracked' = untracked /\ attributes' = attributes /\ cand' = cand
      /\ outcome' = outcome
  BY DEF Changed, copy
<1>2. Types /\ step \in 1..32 /\ at \in Nat
  BY DEF CaptureInv, Types
<1>3. \A s, y : Passed(s, y)' <=> Passed(s, y)
  BY <1>1, SamePassed
<1>4. /\ present' = present /\ Inputs' = Inputs /\ (\A y : Watch(y)' = Watch(y))
      /\ Over("verify")' = Over("verify")
  BY <1>1, SameOver
<1>5. value' \in Values /\ \A y \in Places : value'[y] = IF y = x THEN c ELSE value[y]
  BY <1>1, <1>2 DEF Types, Values
<1>6. \A y \in Anchors : /\ meta[y] \in Nat /\ stamp[y] \in Nat /\ stamp'[y] \in Nat
                         /\ meta[y] <= stamp[y] /\ stamp[y] <= stamp'[y]
  BY <1>2 DEF Types
<1>7. /\ history' \in Seq(Values) /\ Len(history') = Len(history) + 1
      /\ Len(history) \in Nat \ {0} /\ history'[Len(history')] = value'
      /\ \A i \in 1..Len(history) : history'[i] = history[i]
  BY <1>1, <1>2, <1>5 DEF Types
<1>8. 1..Len(history) \subseteq 1..Len(history')
  BY <1>7
<1>9. Types'
  <2>1. \A y \in Solid : value'[y] # Missing
    <3> SUFFICES ASSUME NEW y \in Solid PROVE value'[y] # Missing
      OBVIOUS
    <3>1. y \in Places /\ value[y] # Missing
      BY <1>2 DEF Types, Solid, Places, GitPlaces
    <3>2. CASE y = x
      BY <1>5, <3>1, <3>2
    <3>3. CASE y # x
      BY <1>5, <3>1, <3>3
    <3> QED
      BY <3>2, <3>3
  <2>2. \A y \in Anchors : meta'[y] <= stamp'[y]
    BY <1>1, <1>6
  <2>3. /\ history' \in Seq(Values) /\ Len(history') \in Nat \ {0}
        /\ value' = history'[Len(history')]
    BY <1>7
  <2>4. /\ step' \in 1..32 /\ at' \in Nat \ {0}
        /\ meta' \in [Anchors -> Nat] /\ got' \in Values
        /\ untracked' \in SUBSET Files /\ attributes' \in SUBSET Files
        /\ DOMAIN cand' = {"BASE", "HEAD"}
    BY <1>1, <1>2 DEF Types
  <2> QED
    BY <1>5, <2>1, <2>2, <2>3, <2>4 DEF Types
<1>10. Ordered'
  BY <1>1, <1>3, <1>4 DEF CaptureInv, Ordered
<1>11. \A y, d : Ever(y, d) => Ever(y, d)'
  BY <1>7, <1>8 DEF Ever
<1>12. WasThere'
  <2>1. ASSUME NEW y \in Places, got'[y] # Missing PROVE Ever(y, got[y])'
    <3>1. PICK d : d = got[y]
      OBVIOUS
    <3>2. Ever(y, d)'
      BY <1>1, <1>11, <2>1, <3>1 DEF CaptureInv, WasThere
    <3> QED
      BY <1>1, <3>1, <3>2
  <2>2. \A p \in Files \ (present' \cup Ignored) : Passed(6, p)' => Ever(p, Missing)'
    BY <1>3, <1>4, <1>11 DEF CaptureInv, WasThere
  <2> QED
    BY <2>1, <2>2 DEF WasThere
<1>13. \A y : Again(y)' <=> Again(y)
  BY <1>3, <1>4 DEF Again
<1>14. ASSUME NEW y \in Inputs, ~ Unwatched(y), NEW d, Kept(y, d)
       PROVE  Kept(y, d)'
  <2>1. PICK w : w = Watch(y)
    OBVIOUS
  <2>2. w \in Anchors /\ y \in Places /\ w = Watch(y)'
    BY <1>2, <1>4, <1>14, <2>1, InputsAt
  <2>3. CASE d = got[y]
    BY <1>1, <2>3 DEF Kept
  <2>4. CASE ~ Passed(32, w) /\ stamp[w] > meta[w]
    <3>1. ~ Passed(32, w)' /\ stamp'[w] > meta'[w]
      BY <1>1, <1>3, <1>6, <2>2, <2>4
    <3> QED
      BY <2>2, <3>1 DEF Kept
  <2>5. CASE ~ Again(y) /\ value[y] # got[y]
    <3>1. CASE value'[y] # got'[y]
      BY <1>13, <2>5, <3>1 DEF Kept
    <3>2. CASE value'[y] = got'[y]
      <4>1. y = x /\ c = got[x]
        BY <1>1, <1>5, <2>2, <2>5, <3>2
      <4>2. ~ (c # Missing /\ \A k \in DOMAIN history : history[k][x] # c)
        <5>1. c # Missing => Ever(x, c)
          BY <4>1 DEF CaptureInv, WasThere
        <5>2. DOMAIN history = 1..Len(history)
          BY <1>2 DEF Types
        <5> QED
          BY <5>1, <5>2 DEF Ever
      <4>3. /\ x \in Anchors => stamp'[x] > stamp[x]
            /\ x \in Files /\ c = Missing => stamp'[DirOf[x]] > stamp[DirOf[x]]
        BY <1>14, <4>1, <4>2
      <4>4. stamp'[w] > stamp[w]
        <5>1. CASE y \in Files \ present
          <6>1. w = DirOf[x] /\ got[x] = Missing
            BY <2>1, <4>1, <5>1 DEF Watch, CaptureInv, Ordered
          <6> QED
            BY <4>1, <4>3, <5>1, <6>1
        <5>2. CASE ~ (y \in Files \ present)
          BY <2>1, <2>2, <4>1, <4>3, <5>2 DEF Watch
        <5> QED
          BY <5>1, <5>2
      <4>5. stamp'[w] > meta'[w]
        BY <1>1, <1>6, <2>2, <4>4
      <4>6. ~ Passed(32, w)'
        <5>1. ~ (step > 30)
          BY <1>2, <2>5 DEF Again, Passed
        <5>2. ~ Passed(32, w)
          BY <1>2, <5>1 DEF Passed
        <5> QED
          BY <1>3, <5>2
      <4> QED
        BY <2>2, <4>5, <4>6 DEF Kept
    <3> QED
      BY <3>1, <3>2
  <2> QED
    BY <1>14, <2>1, <2>3, <2>4, <2>5 DEF Kept
<1>15. Witnessed'
  <2>1. CASE cand["BASE"] = Missing
    <3>1. cand["HEAD"] = Missing
      <4>1. ~ Passed(11, "once")
        BY <2>1 DEF CaptureInv, Ordered
      <4>2. ~ Passed(13, "once")
        BY <1>2, <4>1 DEF Passed
      <4> QED
        BY <4>2 DEF CaptureInv, Ordered
    <3> QED
      BY <1>1, <2>1, <3>1 DEF Witnessed
  <2>2. CASE cand["BASE"] # Missing
    <3>1. anchored' = anchored
      <4>1. Passed(11, "once")
        BY <2>2 DEF CaptureInv, Ordered
      <4>2. step > 3
        BY <1>2, <4>1 DEF Passed
      <4> QED
        BY <4>2
    <3>2. \A y : Unwatched(y)' <=> Unwatched(y)
      BY <1>4, <3>1 DEF Unwatched, Ancestors
    <3>3. PICK k \in 1..Len(history) : Moment(k)
      BY <2>2 DEF CaptureInv, Witnessed
    <3>4. k \in 1..Len(history') /\ history'[k] = history[k]
      BY <1>7, <1>8, <3>3
    <3>5. ASSUME NEW y \in Inputs
          PROVE  IF Unwatched(y)' THEN Before(y, k)' /\ After(y, k)' ELSE Kept(y, history[k][y])'
      <4>1. CASE Unwatched(y)
        <5>1. Before(y, k) /\ After(y, k)
          BY <3>3, <4>1 DEF Moment
        <5>2. Before(y, k)'
          <6>1. \A i \in 1..k : history'[i] = history[i]
            BY <1>7, <3>3
          <6> QED
            BY <1>1, <5>1, <6>1 DEF Before
        <5>3. After(y, k)'
          <6>1. \A i \in k..Len(history) : history'[i] = history[i] /\ i \in k..Len(history')
            BY <1>7, <3>3
          <6> QED
            BY <1>1, <1>13, <5>1, <6>1 DEF After
        <5> QED
          BY <3>2, <4>1, <5>2, <5>3
      <4>2. CASE ~ Unwatched(y)
        <5>1. PICK d : d = history[k][y]
          OBVIOUS
        <5>2. Kept(y, d)'
          BY <1>14, <3>3, <4>2, <5>1 DEF Moment
        <5> QED
          BY <3>2, <3>4, <4>2, <5>1, <5>2
      <4> QED
        BY <4>1, <4>2
    <3>6. Moment(k)'
      BY <1>1, <1>4, <3>3, <3>4, <3>5 DEF Moment
    <3>7. ASSUME cand["HEAD"] # Missing, anchored PROVE Kept("HEAD", cand["HEAD"])'
      <4>1. "HEAD" \in Inputs /\ ~ Unwatched("HEAD") /\ Kept("HEAD", cand["HEAD"])
        <5>1. ~ Unwatched("HEAD")
          BY <3>7, Apart DEF Unwatched
        <5> QED
          BY <3>7, <5>1 DEF Inputs, Said, CaptureInv, Witnessed
      <4>2. PICK d : d = cand["HEAD"]
        OBVIOUS
      <4>3. Kept("HEAD", d)'
        BY <1>14, <4>1, <4>2
      <4> QED
        BY <1>1, <4>2, <4>3
    <3> QED
      BY <1>1, <3>1, <3>4, <3>6, <3>7 DEF Witnessed
  <2> QED
    BY <2>1, <2>2
<1> QED
  BY <1>9, <1>10, <1>12, <1>15 DEF CaptureInv

\* A write that the clock tells from the last one.
LEMMA EditKeeps ==
  ASSUME CaptureInv, Edit
  PROVE  CaptureInv'
<1>1. PICK x \in Places, c \in Contents \cup {Missing} :
        /\ c = Missing => x \notin Solid
        /\ Changed(x, c)
        /\ stamp' = [y \in Anchors |->
             IF y = x \/ (x \in Files /\ y = DirOf[x] /\ Missing \in {c, value[x]})
             THEN stamp[y] + 1 ELSE stamp[y]]
        /\ anchored' \in {anchored, anchored /\ ~ (x = "HEAD" /\ BranchRead)}
  BY DEF Edit
<1>2. stamp \in [Anchors -> Nat \ {0}] /\ anchored \in BOOLEAN /\ step \in 1..32
  BY DEF CaptureInv, Types
<1>3. stamp' \in [Anchors -> Nat \ {0}] /\ \A y \in Anchors : stamp'[y] >= stamp[y]
  BY <1>1, <1>2
<1>4. x \in Anchors => stamp'[x] > stamp[x]
  BY <1>1, <1>2
<1>5. x \in Files /\ c = Missing => stamp'[DirOf[x]] > stamp[DirOf[x]]
  <2> SUFFICES ASSUME x \in Files, c = Missing PROVE stamp'[DirOf[x]] > stamp[DirOf[x]]
    OBVIOUS
  <2>1. PICK d : d = DirOf[x]
    OBVIOUS
  <2>2. d \in Anchors
    BY <2>1, CaptureConstants DEF Anchors
  <2>3. stamp'[d] = stamp[d] + 1 /\ stamp[d] \in Nat
    BY <1>1, <1>2, <2>1, <2>2
  <2> QED
    BY <2>1, <2>3
<1>6. anchored' \in BOOLEAN /\ (anchored' => anchored)
  BY <1>1, <1>2
<1>7. step > 3 => anchored' = anchored
  <2>1. step > 3 => ~ BranchRead
    BY <1>2, ProgramIs DEF BranchRead
  <2> QED
    BY <1>1, <1>2, <2>1
<1> QED
  BY <1>1, <1>3, <1>4, <1>5, <1>6, <1>7, Overwritten

\* And one it does not, or that no stamp shows.
LEMMA UnseenEditKeeps ==
  ASSUME CaptureInv, UnseenEdit
  PROVE  CaptureInv'
<1>1. PICK x \in Places, c \in Contents :
        /\ \/ x \notin Files /\ Unwatched(x)
           \/ \A k \in DOMAIN history : history[k][x] # c
        /\ Changed(x, c)
        /\ stamp' = stamp /\ anchored' = anchored
  BY DEF UnseenEdit
<1>2. c # Missing
  BY CaptureConstants
<1>3. /\ stamp' \in [Anchors -> Nat \ {0}] /\ \A y \in Anchors : stamp'[y] >= stamp[y]
      /\ anchored' \in BOOLEAN
  BY <1>1 DEF CaptureInv, Types
<1> QED
  BY <1>1, <1>2, <1>3, Overwritten

\* Before anything was read.
LEMMA InitCapture == Init => CaptureInv
<1> SUFFICES ASSUME Init PROVE CaptureInv
  OBVIOUS
<1>1. /\ step = 1 /\ at = 1 /\ untracked = {} /\ attributes = {} /\ outcome = "RUNNING"
      /\ cand = [x \in {"BASE", "HEAD"} |-> Missing] /\ got = [x \in Places |-> Missing]
  BY DEF Init
<1>2. \A s, x : s \in 1..32 => ~ Passed(s, x)
  BY <1>1 DEF Passed
<1>3. Types
  <2>1. value \in Values /\ history = <<value>>
    BY DEF Init, Values
  <2>2. history \in Seq(Values) /\ Len(history) = 1 /\ history[1] = value
    BY <2>1
  <2>3. got \in Values
    BY <1>1 DEF Values
  <2>4. stamp = [x \in Anchors |-> 1] /\ meta = [x \in Anchors |-> 0] /\ anchored = TRUE
        /\ \A x \in Solid : value[x] # Missing
    BY DEF Init
  <2> QED
    BY <1>1, <2>1, <2>2, <2>3, <2>4 DEF Types
<1>4. cand["BASE"] = Missing /\ cand["HEAD"] = Missing
  BY <1>1
<1>5. \A x \in Places : got[x] = Missing
  BY <1>1
<1>6. Ordered
  BY <1>1, <1>2, <1>4, <1>5, Apart DEF Ordered
<1>7. WasThere
  BY <1>2, <1>5 DEF WasThere
<1>8. Witnessed
  BY <1>4 DEF Witnessed
<1> QED
  BY <1>3, <1>6, <1>7, <1>8 DEF CaptureInv

\* Every step keeps it.
LEMMA NextCapture == CaptureInv /\ [Next]_vars => CaptureInv'
<1> SUFFICES ASSUME CaptureInv, [Next]_vars PROVE CaptureInv'
  OBVIOUS
<1>1. CASE TakeStamp
  BY <1>1, TakeStampKeeps
<1>2. CASE ReadGit
  BY <1>2, ReadGitKeeps
<1>3. CASE ReadTree
  BY <1>3, ReadTreeKeeps
<1>4. CASE List
  BY <1>4, ListKeeps
<1>5. CASE Attributes
  BY <1>5, AttributesKeep
<1>6. CASE \/ ReadBranch \/ Open \/ VerifyMetadata \/ Diff \/ Reread \/ Relist \/ Reattributes
           \/ Proceed \/ CommandFails \/ OverBudget
  BY <1>6, ChecksKeep
<1>7. CASE Resolve
  BY <1>7, ResolveKeeps
<1>8. CASE Edit
  BY <1>8, EditKeeps
<1>9. CASE UnseenEdit
  BY <1>9, UnseenEditKeeps
<1>10. CASE UNCHANGED vars
  <2>1. /\ value' = value /\ stamp' = stamp /\ history' = history /\ anchored' = anchored
        /\ step' = step /\ at' = at /\ meta' = meta /\ got' = got
        /\ untracked' = untracked /\ attributes' = attributes /\ cand' = cand
        /\ outcome' = outcome
    BY <1>10 DEF vars
  <2>2. /\ \A s, x : Passed(s, x)' <=> Passed(s, x)
        /\ present' = present /\ Inputs' = Inputs /\ \A x : Watch(x)' = Watch(x)
        /\ Over("verify")' = Over("verify")
    BY <2>1, SamePassed, SameOver
  <2>3. Types'
    BY <2>1 DEF CaptureInv, Types
  <2>4. Ordered'
    BY <2>1, <2>2 DEF CaptureInv, Ordered
  <2>5. WasThere'
    BY <2>1, <2>2 DEF CaptureInv, WasThere, Ever
  <2>6. \A x : (Again(x)' <=> Again(x)) /\ (Unwatched(x)' <=> Unwatched(x))
    BY <2>1, <2>2 DEF Again, Unwatched, Ancestors
  <2>7. \A x, c : Kept(x, c)' <=> Kept(x, c)
    BY <2>1, <2>2, <2>6 DEF Kept
  <2>8. \A x, k : (Before(x, k)' <=> Before(x, k)) /\ (After(x, k)' <=> After(x, k))
    BY <2>1, <2>6 DEF Before, After
  <2>9. ASSUME NEW k, Moment(k) PROVE Moment(k)'
    <3>1. ASSUME NEW x \in Inputs
          PROVE  IF Unwatched(x)' THEN Before(x, k)' /\ After(x, k)' ELSE Kept(x, history[k][x])'
      <4>1. PICK c : c = history[k][x]
        OBVIOUS
      <4>2. ~ Unwatched(x) => Kept(x, c)'
        BY <2>7, <2>9, <4>1 DEF Moment
      <4> QED
        BY <2>1, <2>6, <2>8, <2>9, <4>1, <4>2 DEF Moment
    <3> QED
      BY <2>1, <2>2, <2>9, <3>1 DEF Moment
  <2>10. cand["HEAD"] # Missing /\ anchored => Kept("HEAD", cand["HEAD"])'
    <3>1. PICK c : c = cand["HEAD"]
      OBVIOUS
    <3>2. cand["HEAD"] # Missing /\ anchored => Kept("HEAD", c)'
      BY <2>7, <3>1 DEF CaptureInv, Witnessed
    <3> QED
      BY <2>1, <3>1, <3>2
  <2>11. Witnessed'
    BY <2>1, <2>9, <2>10 DEF CaptureInv, Witnessed
  <2> QED
    BY <2>3, <2>4, <2>5, <2>11 DEF CaptureInv
<1> QED
  BY <1>1, <1>2, <1>3, <1>4, <1>5, <1>6, <1>7, <1>8, <1>9, <1>10 DEF Next, Capture

\* At the end every check has been made, so that nothing is different.
LEMMA CaptureHolds == CaptureInv => CandidateExisted
<1> SUFFICES ASSUME CaptureInv, outcome = "CAPTURED" PROVE CandidateExisted
  BY DEF CandidateExisted
<1>1. /\ Types /\ step = 32 /\ at > Len(Over("verify")) /\ at \in Nat
      /\ Program[32] = "verify"
  <2>1. step = 32 /\ at > Len(Over("verify"))
    BY DEF CaptureInv, Ordered
  <2>2. Types /\ at \in Nat
    BY DEF CaptureInv, Types
  <2> QED
    BY <2>1, <2>2, ProgramIs
<1>2. \A s \in 1..31 : \A x : Passed(s, x)
  BY <1>1 DEF Passed
<1>3. \A x \in GitPlaces \cup Watched : Passed(32, x)
  <2> SUFFICES ASSUME NEW x \in GitPlaces \cup Watched PROVE Passed(32, x)
    OBVIOUS
  <2>1. /\ x \in Elements(Over("verify"))
        /\ Over("verify") \in Seq(Anchors \cup {"once", "UNLOCKED"})
    BY <1>1, ElementsAt, OverElements
  <2>2. PICK k \in DOMAIN Over("verify") : Over("verify")[k] = x
    BY <2>1 DEF Elements
  <2>3. k \in 1..(at - 1)
    BY <1>1, <2>1, <2>2
  <2> QED
    BY <1>1, <2>2, <2>3 DEF Passed
<1>4. \A x : Again(x)
  BY <1>2 DEF Again
<1>5. \A x \in Inputs : ~ Unwatched(x) => \A c : Kept(x, c) => c = got[x]
  BY <1>1, <1>3, <1>4, InputsAt DEF Kept
<1>6. cand["BASE"] # Missing /\ cand["HEAD"] # Missing
  BY <1>2 DEF CaptureInv, Ordered
<1>7. PICK k \in 1..Len(history) : Moment(k)
  BY <1>6 DEF CaptureInv, Witnessed
<1>8. anchored => cand["HEAD"] = got["HEAD"]
  <2> SUFFICES ASSUME anchored PROVE cand["HEAD"] = got["HEAD"]
    OBVIOUS
  <2>1. "HEAD" \in Inputs /\ ~ Unwatched("HEAD")
    BY Apart DEF Inputs, Said, Unwatched
  <2> QED
    BY <1>5, <1>6, <2>1 DEF CaptureInv, Witnessed
<1>9. ASSUME NEW x \in Said PROVE WasSo(x, k) \/ CameBack(x, k)
  <2>1. CASE x = "BASE"
    BY <1>7, <2>1 DEF Moment, WasSo
  <2>2. CASE x \in Inputs /\ ~ Unwatched(x)
    <3>1. PICK c : c = history[k][x]
      OBVIOUS
    <3>2. c = got[x]
      BY <1>5, <1>7, <2>2, <3>1 DEF Moment
    <3> QED
      BY <2>2, <3>1, <3>2 DEF WasSo, Inputs
  <2>3. CASE x \in Inputs /\ Unwatched(x)
    <3>1. Before(x, k) /\ After(x, k)
      BY <1>7, <2>3 DEF Moment
    <3> QED
      BY <1>4, <2>3, <3>1 DEF Before, After, CameBack, WasSo, Inputs
  <2> QED
    BY <1>9, <2>1, <2>2, <2>3 DEF Inputs
<1>10. DOMAIN history = 1..Len(history)
  BY <1>1 DEF Types
<1> QED
  BY <1>7, <1>8, <1>9, <1>10 DEF CandidateExisted

\* A candidate that is returned existed at one moment, whatever other
\* programs wrote while it was read, up to what came back to it where no
\* stamp is compared.
THEOREM CandidatesExisted == Spec => []CandidateExisted
<1>1. Init => CaptureInv
  BY InitCapture
<1>2. CaptureInv /\ [Next]_vars => CaptureInv'
  BY NextCapture
<1>3. CaptureInv => CandidateExisted
  BY CaptureHolds
<1> QED
  BY <1>1, <1>2, <1>3, PTL DEF Spec


----------------------------------------------------------------------------
(* The capture of a tree that nobody writes.                               *)

\* A check that the quiet tree passes, or fails for a reason of its own.
LEMMA QuietCheck ==
  ASSUME Types, Quiet, Goes, UNCHANGED <<tree, meta, got, untracked, attributes>>,
         \A x \in {"BASE", "HEAD"} : cand'[x] \in {Missing, value[x]},
         handle' \in {Closed, 1},
         outcome' = "REFUSED" => value["LOCK"] # Missing \/ outcome = "REFUSED",
         Passes => step \notin {1, 3, 4, 6, 7, 8, 9}
  PROVE  Quiet'
<1>1. /\ value' = value /\ stamp' = stamp /\ meta' = meta /\ got' = got
      /\ untracked' = untracked /\ attributes' = attributes
  BY DEF tree
<1>2. \A s \in {1, 3, 4, 6, 7, 8, 9} : \A x \in Elements(Over(Program[s])) :
        Passed(s, x)' <=> Passed(s, x)
  BY <1>1, Passing
<1>3. /\ present' = present /\ tracked' = tracked /\ controls' = controls
      /\ Watched' = Watched /\ observed' = observed
  BY <1>1, SameOver
<1>4. /\ Passed(1, "SETTINGS")' <=> Passed(1, "SETTINGS")
      /\ \A x \in GitPlaces : Passed(3, x)' <=> Passed(3, x)
      /\ \A x \in Metadata \ {"SETTINGS"} : Passed(4, x)' <=> Passed(4, x)
      /\ \A x \in Files : Passed(6, x)' <=> Passed(6, x)
      /\ \A x \in controls : Passed(7, x)' <=> Passed(7, x)
      /\ \A x \in Watched : Passed(8, x)' <=> Passed(8, x)
      /\ \A x \in present : Passed(9, x)' <=> Passed(9, x)
  BY <1>2, ElementsAt
<1>5. \A p : Untracked(p)' <=> Untracked(p)
  BY <1>1, <1>3 DEF Untracked
<1>6. /\ stamp' = [x \in Anchors |-> 1]
      /\ Passed(1, "SETTINGS")' => got'["SETTINGS"] = value'["SETTINGS"]
      /\ \A x \in GitPlaces : Passed(3, x)' => meta'[x] = 1
      /\ \A x \in Metadata \ {"SETTINGS"} : Passed(4, x)' => got'[x] = value'[x]
  BY <1>1, <1>4 DEF Quiet
<1>7. /\ \A p \in untracked' : Untracked(p)'
      /\ \A p \in Files \ untracked' : Passed(6, p)' => ~ Untracked(p)'
      /\ \A p \in attributes' : value'[p] # Missing
      /\ \A p \in controls' \ attributes' : Passed(7, p)' => value'[p] = Missing
  BY <1>1, <1>3, <1>4, <1>5 DEF Quiet
<1>8. /\ \A x \in Watched' : Passed(8, x)' => meta'[x] = 1
      /\ \A x \in present' : Passed(9, x)' => got'[x] = value'[x]
  BY <1>1, <1>3, <1>4 DEF Quiet
<1>9. /\ \A x \in {"BASE", "HEAD"} : cand'[x] \in {Missing, value'[x]}
      /\ outcome' = "REFUSED" => Len(observed') > MaxFiles \/ value'["LOCK"] # Missing
  BY <1>1, <1>3 DEF Quiet
<1> QED
  BY <1>6, <1>7, <1>8, <1>9 DEF Quiet

\* The file that is read has the stamp it was opened with.
LEMMA QuietReads ==
  ASSUME Types, Quiet, at <= Len(Over(Program[step])), NEW x, x = Current,
         Program[step] \in {"settings", "readGit", "readTree", "rereadGit", "rereadTree"}
  PROVE  /\ Opened => stamp[x] = 1
         /\ Program[step] \in {"rereadGit", "rereadTree"} => got[x] = value[x]
         /\ Readable => read_regular
<1>1. step \in 1..32 /\ x \in Elements(Over(Program[step]))
  BY CurrentIs DEF Types
<1>2. step \in {1, 4, 9, 28, 30}
      /\ (Program[step] \in {"rereadGit", "rereadTree"} => step \in {28, 30})
  BY <1>1, ProgramIs
<1>3. /\ step \in {1, 4, 30} => x \in Metadata
      /\ step \in {9, 28} => x \in present
  BY <1>1, <1>2, ElementsAt DEF Metadata
<1>4. x \in Anchors
  BY <1>2, <1>3, Apart, ViewIs
<1>5. stamp[x] = 1 /\ handle \in {Closed, 1}
  BY <1>4 DEF Quiet
<1>6. \A s \in 1..32 : \A y : step > s => Passed(s, y)
  BY DEF Passed
<1>7. step \in {28, 30} => got[x] = value[x]
  <2>1. step = 30 => got[x] = value[x]
    BY <1>3, <1>6 DEF Quiet
  <2>2. step = 28 => got[x] = value[x]
    BY <1>3, <1>6 DEF Quiet
  <2> QED
    BY <2>1, <2>2
<1>8. Readable => read_regular
  BY <1>5 DEF Readable, read_regular, Closed
<1> QED
  BY <1>2, <1>5, <1>7, <1>8

\* The stamps before the reads are those of the quiet tree.
LEMMA QuietTakeStamp ==
  ASSUME CaptureInv, Quiet, TakeStamp
  PROVE  Quiet'
<1>1. /\ at <= Len(Over(Program[step])) /\ Program[step] \in {"metaGit", "metaTree"}
      /\ Advance /\ Running /\ UNCHANGED <<tree, handle, got, untracked, attributes, cand>>
      /\ meta' = [meta EXCEPT ![Current] = stamp[Current]]
  BY DEF TakeStamp, Now
<1>2. Types
  BY DEF CaptureInv
<1>3. /\ value' = value /\ stamp' = stamp /\ got' = got /\ untracked' = untracked
      /\ attributes' = attributes /\ cand' = cand /\ handle' = handle /\ outcome' = "RUNNING"
  BY <1>1 DEF tree, Advance, Running
<1>4. Goes
  BY <1>1 DEF Goes, Passes
<1>5. step \in {3, 8} /\ Current \in Anchors
  BY <1>1, <1>2, ReadsAt
<1>6. stamp[Current] = 1
  BY <1>5 DEF Quiet
<1>7. \A x \in Anchors : meta'[x] = IF x = Current THEN 1 ELSE meta[x]
  BY <1>1, <1>2, <1>6 DEF Types
<1>8. \A s \in 1..32 : \A x \in Elements(Over(Program[s])) :
        Passed(s, x)' => Passed(s, x) \/ (s = step /\ x = Current)
  BY <1>2, <1>3, <1>4, Passing
<1>9. /\ present' = present /\ tracked' = tracked /\ controls' = controls
      /\ Watched' = Watched /\ observed' = observed
  BY <1>3, SameOver
<1>10. /\ Passed(1, "SETTINGS")' => Passed(1, "SETTINGS")
       /\ \A x \in GitPlaces : Passed(3, x)' => Passed(3, x) \/ x = Current
       /\ \A x \in Metadata \ {"SETTINGS"} : Passed(4, x)' => Passed(4, x)
       /\ \A x \in Files : Passed(6, x)' => Passed(6, x)
       /\ \A x \in controls : Passed(7, x)' => Passed(7, x)
       /\ \A x \in Watched : Passed(8, x)' => Passed(8, x) \/ x = Current
       /\ \A x \in present : Passed(9, x)' => Passed(9, x)
  BY <1>2, <1>5, <1>8, ElementsAt
<1>11. GitPlaces \subseteq Anchors /\ Watched \subseteq Anchors
  BY <1>2, Apart, ViewIs
<1>12. \A p : Untracked(p)' <=> Untracked(p)
  BY <1>3, <1>9 DEF Untracked
<1>13. /\ Passed(1, "SETTINGS")' => got'["SETTINGS"] = value'["SETTINGS"]
       /\ \A x \in Metadata \ {"SETTINGS"} : Passed(4, x)' => got'[x] = value'[x]
       /\ \A x \in present' : Passed(9, x)' => got'[x] = value'[x]
  BY <1>3, <1>9, <1>10 DEF Quiet
<1>14. /\ \A x \in GitPlaces : Passed(3, x)' => meta'[x] = 1
       /\ \A x \in Watched' : Passed(8, x)' => meta'[x] = 1
  BY <1>7, <1>9, <1>10, <1>11 DEF Quiet
<1>15. /\ \A p \in untracked' : Untracked(p)'
       /\ \A p \in Files \ untracked' : Passed(6, p)' => ~ Untracked(p)'
       /\ \A p \in attributes' : value'[p] # Missing
       /\ \A p \in controls' \ attributes' : Passed(7, p)' => value'[p] = Missing
  BY <1>3, <1>9, <1>10, <1>12 DEF Quiet
<1>16. /\ stamp' = [x \in Anchors |-> 1] /\ handle' \in {Closed, 1}
       /\ \A x \in {"BASE", "HEAD"} : cand'[x] \in {Missing, value'[x]}
       /\ outcome' # "REFUSED"
  BY <1>3 DEF Quiet
<1> QED
  BY <1>13, <1>14, <1>15, <1>16 DEF Quiet

\* The settings, HEAD, the index and the rules are read as they are.
LEMMA QuietReadGit ==
  ASSUME CaptureInv, Quiet, ReadGit
  PROVE  Quiet'
<1>1. /\ at <= Len(Over(Program[step])) /\ Program[step] \in {"settings", "readGit"} /\ Running
      /\ Readable /\ (IF read_regular THEN Advance ELSE Refuse)
      /\ UNCHANGED <<tree, meta, untracked, attributes, cand>> /\ handle' = Closed
      /\ got' = [got EXCEPT ![Current] = value[Current]]
  BY DEF ReadGit, Now
<1>2. Types /\ Ordered
  BY DEF CaptureInv
<1>3. /\ value' = value /\ stamp' = stamp /\ meta' = meta /\ untracked' = untracked
      /\ attributes' = attributes /\ cand' = cand
  BY <1>1 DEF tree
<1>4. \/ step = 1 /\ Current = "SETTINGS"
      \/ step = 4 /\ Current \in Metadata \ {"SETTINGS"}
  BY <1>1, <1>2, ReadsAt
<1>5. read_regular
  <2>1. PICK x : x = Current
    OBVIOUS
  <2> QED
    BY <1>1, <1>2, <2>1, QuietReads
<1>6. Advance /\ step' = step /\ outcome' = "RUNNING"
  BY <1>1, <1>5 DEF Advance, Running
<1>7. \A x \in Metadata : got'[x] = IF x = Current THEN value[x] ELSE got[x]
  BY <1>1, <1>2, Apart DEF Types, Values
<1>8. Over(Program[step])' = Over(Program[step])
  <2>1. Program[1] = "settings" /\ Program[4] = "readGit"
    BY ProgramIs
  <2> QED
    BY <1>4, <1>6, <2>1 DEF Over
<1>9. \A s, x : Passed(s, x)' <=> Passed(s, x) \/ (s = step /\ x = Current)
  BY <1>1, <1>2, <1>6, <1>8, AdvancePasses
<1>10. \A s \in {6, 7, 8, 9} : \A x : ~ Passed(s, x)'
  BY <1>4, <1>6 DEF Passed
<1>11. untracked' = {} /\ attributes' = {}
  BY <1>2, <1>3, <1>4 DEF Ordered
<1>12. Passed(1, "SETTINGS")' => got'["SETTINGS"] = value'["SETTINGS"]
  BY <1>3, <1>4, <1>7, <1>9 DEF Quiet, Metadata
<1>13. \A x \in Metadata \ {"SETTINGS"} : Passed(4, x)' => got'[x] = value'[x]
  BY <1>3, <1>4, <1>7, <1>9 DEF Quiet
<1>14. \A x \in GitPlaces : Passed(3, x)' => meta'[x] = 1
  BY <1>3, <1>4, <1>9 DEF Quiet
<1>15. /\ \A p \in untracked' : Untracked(p)'
       /\ \A p \in Files \ untracked' : Passed(6, p)' => ~ Untracked(p)'
       /\ \A p \in attributes' : value'[p] # Missing
       /\ \A p \in controls' \ attributes' : Passed(7, p)' => value'[p] = Missing
       /\ \A x \in Watched' : Passed(8, x)' => meta'[x] = 1
       /\ \A x \in present' : Passed(9, x)' => got'[x] = value'[x]
  BY <1>10, <1>11
<1>16. /\ stamp' = [x \in Anchors |-> 1] /\ handle' \in {Closed, 1}
       /\ \A x \in {"BASE", "HEAD"} : cand'[x] \in {Missing, value'[x]}
       /\ outcome' # "REFUSED"
  BY <1>1, <1>3, <1>6 DEF Quiet
<1> QED
  BY <1>12, <1>13, <1>14, <1>15, <1>16 DEF Quiet

\* The files are read as they are.
LEMMA QuietReadTree ==
  ASSUME CaptureInv, Quiet, ReadTree
  PROVE  Quiet'
<1>1. /\ at <= Len(Over(Program[step])) /\ Program[step] \in {"readTree"} /\ Running /\ Readable
      /\ IF ~ read_regular \/ (Current \in untracked /\ value[Current] = Missing)
         THEN Refuse ELSE Advance
      /\ UNCHANGED <<tree, meta, untracked, attributes, cand>> /\ handle' = Closed
      /\ got' = [got EXCEPT ![Current] = value[Current]]
  BY DEF ReadTree, Now
<1>2. Types
  BY DEF CaptureInv
<1>3. /\ value' = value /\ stamp' = stamp /\ meta' = meta /\ untracked' = untracked
      /\ attributes' = attributes /\ cand' = cand
  BY <1>1 DEF tree
<1>4. step = 9 /\ Current \in present /\ present \subseteq Files
  BY <1>1, <1>2, ReadsAt, ViewIs
<1>5. read_regular
  <2>1. PICK x : x = Current
    OBVIOUS
  <2> QED
    BY <1>1, <1>2, <2>1, QuietReads
<1>6. Current \in untracked => value[Current] # Missing
  BY DEF Quiet, Untracked
<1>7. Advance /\ outcome' = "RUNNING"
  BY <1>1, <1>5, <1>6 DEF Advance, Running
<1>8. /\ \A x \in Metadata \cup Files :
            got'[x] = IF x = Current THEN value[x] ELSE got[x]
      /\ \A x \in Metadata : got'[x] = got[x]
      /\ got'["INDEX"] = got["INDEX"]
  <2>1. /\ Metadata \cup Files \subseteq Places /\ Current \notin Metadata
        /\ "INDEX" \in Metadata
    BY <1>4, Apart DEF Metadata
  <2>2. \A x \in Metadata \cup Files : got'[x] = IF x = Current THEN value[x] ELSE got[x]
    BY <1>1, <1>2, <2>1 DEF Types, Values
  <2> QED
    BY <2>1, <2>2
<1>9. Goes
  BY <1>1, <1>7 DEF Goes, Passes
<1>10. \A s \in 1..32 : \A x \in Elements(Over(Program[s])) :
         Passed(s, x)' => Passed(s, x) \/ (s = step /\ x = Current)
  BY <1>2, <1>3, <1>8, <1>9, Passing
<1>11. /\ present' = present /\ tracked' = tracked /\ controls' = controls
       /\ Watched' = Watched
  BY <1>3, <1>8, SameOver
<1>12. /\ Passed(1, "SETTINGS")' => Passed(1, "SETTINGS")
       /\ \A x \in GitPlaces : Passed(3, x)' => Passed(3, x)
       /\ \A x \in Metadata \ {"SETTINGS"} : Passed(4, x)' => Passed(4, x)
       /\ \A x \in Files : Passed(6, x)' => Passed(6, x)
       /\ \A x \in controls : Passed(7, x)' => Passed(7, x)
       /\ \A x \in Watched : Passed(8, x)' => Passed(8, x)
       /\ \A x \in present : Passed(9, x)' => Passed(9, x) \/ x = Current
  BY <1>2, <1>4, <1>10, ElementsAt
<1>13. \A p : Untracked(p)' <=> Untracked(p)
  BY <1>3, <1>11 DEF Untracked
<1>14. /\ Passed(1, "SETTINGS")' => got'["SETTINGS"] = value'["SETTINGS"]
       /\ \A x \in Metadata \ {"SETTINGS"} : Passed(4, x)' => got'[x] = value'[x]
  BY <1>3, <1>8, <1>12 DEF Quiet, Metadata
<1>15. \A x \in present' : Passed(9, x)' => got'[x] = value'[x]
  BY <1>3, <1>4, <1>8, <1>11, <1>12 DEF Quiet
<1>16. /\ \A x \in GitPlaces : Passed(3, x)' => meta'[x] = 1
       /\ \A x \in Watched' : Passed(8, x)' => meta'[x] = 1
  BY <1>3, <1>11, <1>12 DEF Quiet
<1>17. /\ \A p \in untracked' : Untracked(p)'
       /\ \A p \in Files \ untracked' : Passed(6, p)' => ~ Untracked(p)'
       /\ \A p \in attributes' : value'[p] # Missing
       /\ \A p \in controls' \ attributes' : Passed(7, p)' => value'[p] = Missing
  BY <1>3, <1>11, <1>12, <1>13 DEF Quiet
<1>18. /\ stamp' = [x \in Anchors |-> 1] /\ handle' \in {Closed, 1}
       /\ \A x \in {"BASE", "HEAD"} : cand'[x] \in {Missing, value'[x]}
       /\ outcome' # "REFUSED"
  BY <1>1, <1>3, <1>7 DEF Quiet
<1> QED
  BY <1>14, <1>15, <1>16, <1>17, <1>18 DEF Quiet

\* The inventory is refused only at the limit.
LEMMA QuietList ==
  ASSUME CaptureInv, Quiet, List
  PROVE  Quiet'
<1>1. /\ at <= Len(Over(Program[step])) /\ Program[step] \in {"list"} /\ Running
      /\ untracked' = IF Untracked(Current) THEN untracked \cup {Current} ELSE untracked
      /\ IF Len(Sorted(tracked \cup untracked')) > MaxFiles THEN Refuse ELSE Advance
      /\ UNCHANGED <<tree, handle, meta, got, attributes, cand>>
  BY DEF List, Now
<1>2. Types /\ Ordered
  BY DEF CaptureInv
<1>3. /\ value' = value /\ stamp' = stamp /\ meta' = meta /\ got' = got
      /\ attributes' = attributes /\ cand' = cand /\ handle' = handle
  BY <1>1 DEF tree
<1>4. step = 6 /\ Current \in Files
  BY <1>1, <1>2, ReadsAt
<1>5. tracked' = tracked /\ attributes' = {}
  BY <1>2, <1>3, <1>4 DEF tracked, Ordered
<1>6. outcome' = "REFUSED" => Len(observed') > MaxFiles
  <2>1. present' = tracked \cup untracked'
    BY <1>5 DEF present, listed
  <2>2. observed' = Sorted(present')
    BY DEF observed, Sorted
  <2> QED
    BY <1>1, <2>1, <2>2 DEF Advance, Running
<1>7. step' = 6
  BY <1>1, <1>4 DEF Advance, Refuse
<1>8. Over(Program[step])' = Over(Program[step])
  <2>1. Program[6] = "list"
    BY ProgramIs
  <2> QED
    BY <1>4, <1>7, <2>1 DEF Over
<1>9. \A x : Passed(6, x)' => Passed(6, x) \/ x = Current
  <2>1. CASE Advance
    BY <1>1, <1>2, <1>8, <2>1, AdvancePasses
  <2>2. CASE Refuse
    <3>1. step' = step /\ at' = at
      BY <2>2 DEF Refuse
    <3>2. Over(Program[6])' = Over(Program[6])
      BY <1>4, <1>7, <1>8
    <3> QED
      BY <1>4, <3>1, <3>2 DEF Passed
  <2> QED
    BY <1>1, <2>1, <2>2
<1>10. /\ \A s \in {1, 3, 4} : \A x : Passed(s, x)
       /\ \A s \in {7, 8, 9} : \A x : ~ Passed(s, x)'
  BY <1>4, <1>7 DEF Passed
<1>11. \A p : Untracked(p)' <=> Untracked(p)
  BY <1>3, <1>5 DEF Untracked
<1>12. \A p \in untracked' : Untracked(p)'
  BY <1>1, <1>11 DEF Quiet
<1>13. \A p \in Files \ untracked' : Passed(6, p)' => ~ Untracked(p)'
  <2> SUFFICES ASSUME NEW p \in Files \ untracked', Passed(6, p)' PROVE ~ Untracked(p)
    BY <1>11
  <2>1. p \notin untracked
    BY <1>1
  <2>2. CASE p = Current
    BY <1>1, <2>2
  <2>3. CASE p # Current
    BY <1>9, <2>1, <2>3 DEF Quiet
  <2> QED
    BY <2>2, <2>3
<1>14. /\ Passed(1, "SETTINGS")' => got'["SETTINGS"] = value'["SETTINGS"]
       /\ \A x \in GitPlaces : Passed(3, x)' => meta'[x] = 1
       /\ \A x \in Metadata \ {"SETTINGS"} : Passed(4, x)' => got'[x] = value'[x]
  BY <1>3, <1>10 DEF Quiet
<1>15. /\ \A p \in attributes' : value'[p] # Missing
       /\ \A p \in controls' \ attributes' : Passed(7, p)' => value'[p] = Missing
       /\ \A x \in Watched' : Passed(8, x)' => meta'[x] = 1
       /\ \A x \in present' : Passed(9, x)' => got'[x] = value'[x]
  BY <1>5, <1>10
<1>16. /\ stamp' = [x \in Anchors |-> 1] /\ handle' \in {Closed, 1}
       /\ \A x \in {"BASE", "HEAD"} : cand'[x] \in {Missing, value'[x]}
  BY <1>3 DEF Quiet
<1> QED
  BY <1>6, <1>12, <1>13, <1>14, <1>15, <1>16 DEF Quiet

\* And so is the look for control files.
LEMMA QuietAttributes ==
  ASSUME CaptureInv, Quiet, Attributes
  PROVE  Quiet'
<1>1. /\ at <= Len(Over(Program[step])) /\ Program[step] \in {"attributes"} /\ Running
      /\ attributes' = IF value[Current] # Missing THEN attributes \cup {Current}
                       ELSE attributes
      /\ IF Len(Sorted(listed \cup attributes')) > MaxFiles THEN Refuse ELSE Advance
      /\ UNCHANGED <<tree, handle, meta, got, untracked, cand>>
  BY DEF Attributes, Now
<1>2. Types
  BY DEF CaptureInv
<1>3. /\ value' = value /\ stamp' = stamp /\ meta' = meta /\ got' = got
      /\ untracked' = untracked /\ cand' = cand /\ handle' = handle
  BY <1>1 DEF tree
<1>4. step = 7 /\ Current \in controls
  BY <1>1, <1>2, ReadsAt
<1>5. tracked' = tracked /\ listed' = listed /\ controls' = controls
  <2>1. tracked' = tracked
    BY <1>3 DEF tracked
  <2>2. listed' = listed
    BY <1>3, <2>1 DEF listed
  <2> QED
    BY <2>1, <2>2 DEF controls, Ancestors
<1>6. outcome' = "REFUSED" => Len(observed') > MaxFiles
  <2>1. present' = listed \cup attributes'
    BY <1>5 DEF present
  <2>2. observed' = Sorted(present')
    BY DEF observed, Sorted
  <2> QED
    BY <1>1, <2>1, <2>2 DEF Advance, Running
<1>7. step' = 7
  BY <1>1, <1>4 DEF Advance, Refuse
<1>8. Over(Program[step])' = Over(Program[step])
  <2>1. Program[7] = "attributes"
    BY ProgramIs
  <2>2. Over("attributes")' = Over("attributes")
    BY <1>5 DEF Over, Sorted
  <2> QED
    BY <1>4, <1>7, <2>1, <2>2
<1>9. \A x : Passed(7, x)' => Passed(7, x) \/ x = Current
  <2>1. CASE Advance
    BY <1>1, <1>2, <1>8, <2>1, AdvancePasses
  <2>2. CASE Refuse
    <3>1. step' = step /\ at' = at
      BY <2>2 DEF Refuse
    <3>2. Over(Program[7])' = Over(Program[7])
      BY <1>4, <1>7, <1>8
    <3> QED
      BY <1>4, <3>1, <3>2 DEF Passed
  <2> QED
    BY <1>1, <2>1, <2>2
<1>10. /\ \A s \in {1, 3, 4, 6} : \A x : Passed(s, x)
       /\ \A s \in {8, 9} : \A x : ~ Passed(s, x)'
  BY <1>4, <1>7 DEF Passed
<1>11. \A p : Untracked(p)' <=> Untracked(p)
  BY <1>3, <1>5 DEF Untracked
<1>12. /\ \A p \in untracked' : Untracked(p)'
       /\ \A p \in Files \ untracked' : Passed(6, p)' => ~ Untracked(p)'
  BY <1>3, <1>10, <1>11 DEF Quiet
<1>13. \A p \in attributes' : value'[p] # Missing
  BY <1>1, <1>3 DEF Quiet
<1>14. \A p \in controls' \ attributes' : Passed(7, p)' => value'[p] = Missing
  <2> SUFFICES ASSUME NEW p \in controls \ attributes', Passed(7, p)' PROVE value[p] = Missing
    BY <1>3, <1>5
  <2>1. p \notin attributes
    BY <1>1
  <2>2. CASE p = Current
    BY <1>1, <2>2
  <2>3. CASE p # Current
    BY <1>9, <2>1, <2>3 DEF Quiet
  <2> QED
    BY <2>2, <2>3
<1>15. /\ Passed(1, "SETTINGS")' => got'["SETTINGS"] = value'["SETTINGS"]
       /\ \A x \in GitPlaces : Passed(3, x)' => meta'[x] = 1
       /\ \A x \in Metadata \ {"SETTINGS"} : Passed(4, x)' => got'[x] = value'[x]
  BY <1>3, <1>10 DEF Quiet
<1>16. /\ \A x \in Watched' : Passed(8, x)' => meta'[x] = 1
       /\ \A x \in present' : Passed(9, x)' => got'[x] = value'[x]
  BY <1>10
<1>17. /\ stamp' = [x \in Anchors |-> 1] /\ handle' \in {Closed, 1}
       /\ \A x \in {"BASE", "HEAD"} : cand'[x] \in {Missing, value'[x]}
  BY <1>3 DEF Quiet
<1> QED
  BY <1>6, <1>12, <1>13, <1>14, <1>15, <1>16, <1>17 DEF Quiet

\* The stamps are compared, and the lock of the index looked for: nothing but
\* a lock that was there from the start is found.
LEMMA QuietVerify ==
  ASSUME CaptureInv, Quiet, VerifyMetadata
  PROVE  Quiet'
<1>1. /\ Running /\ UNCHANGED <<tree, handle, copy>>
      /\ Program[step] \in {"verify", "verifyGit"} /\ at <= Len(Over(Program[step]))
      /\ Compare(IF Current = "UNLOCKED" THEN value["LOCK"] = Missing
                 ELSE stamp[Current] = meta[Current])
  BY DEF VerifyMetadata, Now
<1>2. Types /\ step \in 1..32 /\ at \in Nat \ {0}
  BY DEF CaptureInv, Types
<1>3. PICK x : x = Current
  OBVIOUS
<1>4. step > 4 /\ (Program[step] = "verify" => step > 8)
  <2>1. \/ step \in {5, 29, 31} /\ Program[step] # "verify"
        \/ step \in {10, 12, 14, 16, 18, 20, 22, 24, 25, 32}
    <3>1. "verify" # "verifyGit"
      OBVIOUS
    <3> QED
      BY <1>1, <1>2, <3>1, ProgramIs
  <2> QED
    BY <2>1
<1>5. \/ x = "UNLOCKED" \/ x \in GitPlaces
      \/ Program[step] = "verify" /\ x \in Watched
  <2>1. x \in Elements(Over(Program[step]))
    BY <1>1, <1>2, <1>3, CurrentIs
  <2>2. Over(Program[step]) \in {Git \o <<"UNLOCKED">>, (Git \o <<"UNLOCKED">>) \o Tree}
        /\ (Program[step] # "verify" => Over(Program[step]) = Git \o <<"UNLOCKED">>)
    BY <1>1, OverIs
  <2> QED
    BY <1>2, <2>1, <2>2, OverElements
<1>6. x # "UNLOCKED" => stamp[x] = meta[x]
  <2>1. x \in GitPlaces => meta[x] = 1 /\ x \in Anchors
    BY <1>2, <1>4, Apart DEF Quiet, Passed
  <2>2. x \in Watched /\ Program[step] = "verify" => meta[x] = 1 /\ x \in Anchors
    BY <1>2, <1>4, ViewIs DEF Quiet, Passed
  <2> QED
    BY <1>5, <2>1, <2>2 DEF Quiet
<1>7. /\ Goes
      /\ outcome' = "REFUSED" => value["LOCK"] # Missing
  <2>1. CASE Advance
    BY <1>1, <2>1 DEF Advance, Goes, Passes, Running
  <2>2. CASE ~ Advance
    <3>1. Refuse
      BY <1>1, <2>2 DEF Compare
    <3>2. x = "UNLOCKED" /\ value["LOCK"] # Missing
      BY <1>1, <1>3, <1>6, <2>2 DEF Compare
    <3> QED
      BY <3>1, <3>2 DEF Refuse, Goes
  <2> QED
    BY <2>1, <2>2
<1>8. /\ handle' \in {Closed, 1} /\ \A y \in {"BASE", "HEAD"} : cand'[y] \in {Missing, value[y]}
      /\ UNCHANGED <<tree, meta, got, untracked, attributes>>
  BY <1>1 DEF Quiet, copy
<1>9. step \notin {1, 3, 4, 6, 7, 8, 9}
  BY <1>1, <1>2, ProgramIs
<1> QED
  BY <1>2, <1>7, <1>8, <1>9, QuietCheck

\* The other checks find nothing.
LEMMA QuietChecks ==
  ASSUME CaptureInv, Quiet,
         \/ ReadBranch \/ Open \/ Resolve \/ Diff \/ Reread \/ Relist \/ Reattributes
         \/ Proceed \/ CommandFails \/ OverBudget
  PROVE  Quiet'
<1>1. Types /\ Ordered /\ step \in 1..32 /\ at \in Nat \ {0}
  BY DEF CaptureInv, Types
<1>2. /\ \A x \in {"BASE", "HEAD"} : cand[x] \in {Missing, value[x]}
      /\ handle \in {Closed, 1}
  BY DEF Quiet
<1>3. PICK x : x = Current
  OBVIOUS
<1>4. CASE Open
  <2>1. /\ UNCHANGED <<tree, step, at, copy>> /\ outcome' = "RUNNING"
        /\ at <= Len(Over(Program[step])) /\ handle' = stamp[Current] /\ Opened
        /\ Program[step] \in {"readGit", "readTree", "rereadGit", "rereadTree"}
    BY <1>4 DEF Open, Now, Running
  <2>2. stamp[x] = 1
    BY <1>1, <1>3, <2>1, QuietReads
  <2>3. Goes /\ ~ Passes
    BY <1>1, <2>1 DEF Goes, Passes, Advance
  <2> QED
    BY <1>1, <1>2, <1>3, <2>1, <2>2, <2>3, QuietCheck DEF copy
<1>5. CASE CommandFails \/ OverBudget
  <2>1. /\ UNCHANGED <<tree, copy, step, at>> /\ outcome' = "FAILED" /\ handle' = Closed
    BY <1>5 DEF CommandFails, OverBudget, Fail
  <2>2. Goes /\ ~ Passes
    BY <1>1, <2>1 DEF Goes, Passes, Advance
  <2> QED
    BY <1>1, <1>2, <2>1, <2>2, QuietCheck DEF copy
<1>6. CASE Proceed
  <2>1. UNCHANGED <<tree, copy>> /\ handle' = handle /\ Goes /\ outcome' # "REFUSED"
    BY <1>6 DEF Proceed, Goes, Running
  <2>2. ~ Passes
    <3>1. Len(Over(Program[step])) \in Nat
      BY <1>1, OverElements
    <3> QED
      BY <1>1, <1>6, <3>1 DEF Passes, Proceed
  <2> QED
    BY <1>1, <1>2, <2>1, <2>2, QuietCheck DEF copy
<1>7. CASE Diff \/ ReadBranch
  <2>1. /\ UNCHANGED <<tree, handle, copy>> /\ outcome' = "RUNNING" /\ Goes
        /\ Program[step] \in {"diff", "branch"}
    BY <1>7 DEF Diff, ReadBranch, Now, Advance, Goes, Passes, Running
  <2>2. step \in {2, 15, 21}
    BY <1>1, <2>1, ProgramIs
  <2> QED
    BY <1>1, <1>2, <2>1, <2>2, QuietCheck DEF copy
<1>8. CASE Reread
  <2>1. /\ Running /\ UNCHANGED <<tree, copy>> /\ handle' = Closed /\ Readable
        /\ Program[step] \in {"rereadTree", "rereadGit"} /\ at <= Len(Over(Program[step]))
        /\ Compare(read_regular /\ value[Current] = got[Current])
    BY <1>8 DEF Reread, Now
  <2>2. read_regular /\ value[x] = got[x]
    BY <1>1, <1>3, <2>1, QuietReads
  <2>3. Advance /\ Goes /\ outcome' = "RUNNING"
    BY <1>3, <2>1, <2>2 DEF Compare, Advance, Goes, Passes, Running
  <2>4. step \in {28, 30}
    BY <1>1, <2>1, ProgramIs
  <2> QED
    BY <1>1, <1>2, <2>1, <2>3, <2>4, QuietCheck DEF copy
<1>9. CASE Relist
  <2>1. /\ Running /\ UNCHANGED <<tree, handle, copy>>
        /\ Program[step] = "relist" /\ at <= Len(Over(Program[step]))
        /\ Compare(Untracked(Current) <=> Current \in untracked)
    BY <1>9 DEF Relist, Now
  <2>2. step = 26
    BY <1>1, <2>1, ProgramIs
  <2>3. x \in Files
    BY <1>1, <1>3, <2>1, <2>2, CurrentIs, ElementsAt
  <2>4. Passed(6, x)
    BY <2>2 DEF Passed
  <2>5. Untracked(x) <=> x \in untracked
    BY <2>3, <2>4 DEF Quiet
  <2>6. Advance /\ Goes /\ outcome' = "RUNNING"
    BY <1>3, <2>1, <2>5 DEF Compare, Advance, Goes, Passes, Running
  <2> QED
    BY <1>1, <1>2, <2>1, <2>2, <2>6, QuietCheck DEF copy
<1>10. CASE Reattributes
  <2>1. /\ Running /\ UNCHANGED <<tree, handle, copy>>
        /\ Program[step] = "reattributes" /\ at <= Len(Over(Program[step]))
        /\ Compare((value[Current] # Missing) <=> Current \in attributes)
    BY <1>10 DEF Reattributes, Now
  <2>2. step = 27
    BY <1>1, <2>1, ProgramIs
  <2>3. x \in controls
    BY <1>1, <1>3, <2>1, <2>2, CurrentIs, ElementsAt
  <2>4. Passed(7, x)
    BY <2>2 DEF Passed
  <2>5. (value[x] # Missing) <=> x \in attributes
    BY <2>3, <2>4 DEF Quiet
  <2>6. Advance /\ Goes /\ outcome' = "RUNNING"
    BY <1>3, <2>1, <2>5 DEF Compare, Advance, Goes, Passes, Running
  <2> QED
    BY <1>1, <1>2, <2>1, <2>2, <2>6, QuietCheck DEF copy
<1>11. CASE Resolve
  <2> DEFINE r == IF Program[step] = "base" THEN "BASE" ELSE "HEAD"
  <2>1. /\ Running /\ at <= Len(Over(Program[step])) /\ Program[step] \in {"base", "head"}
        /\ UNCHANGED <<tree, handle, meta, got, untracked, attributes>> /\ r \in {"BASE", "HEAD"}
        /\ \/ cand[r] = Missing /\ cand' = [cand EXCEPT ![r] = value[r]] /\ Advance
           \/ cand[r] # Missing /\ Compare(value[r] = cand[r]) /\ UNCHANGED cand
    BY <1>11 DEF Resolve, Now
  <2> HIDE DEF r
  <2>2. Advance /\ \A y \in {"BASE", "HEAD"} : cand'[y] \in {Missing, value[y]}
    <3>1. CASE cand[r] = Missing
      BY <1>1, <1>2, <2>1, <3>1 DEF Types
    <3>2. CASE cand[r] # Missing
      BY <1>2, <2>1, <3>2 DEF Compare
    <3> QED
      BY <3>1, <3>2
  <2>3. Goes /\ outcome' = "RUNNING"
    BY <2>1, <2>2 DEF Advance, Goes, Passes, Running
  <2>4. step \notin {1, 3, 4, 6, 7, 8, 9}
    BY <1>1, <2>1, ProgramIs
  <2> QED
    BY <1>1, <1>2, <2>1, <2>2, <2>3, <2>4, QuietCheck
<1> QED
  BY <1>4, <1>5, <1>6, <1>7, <1>8, <1>9, <1>10, <1>11

\* Before anything was read.
LEMMA InitQuiet == Init => QuietInv
<1> SUFFICES ASSUME Init PROVE Quiet
  BY DEF QuietInv
<1>1. /\ step = 1 /\ at = 1 /\ untracked = {} /\ attributes = {} /\ outcome = "RUNNING"
      /\ handle = Closed /\ stamp = [x \in Anchors |-> 1]
      /\ cand = [x \in {"BASE", "HEAD"} |-> Missing]
  BY DEF Init
<1>2. \A s, x : s \in {1, 3, 4, 6, 7, 8, 9} => ~ Passed(s, x)
  BY <1>1 DEF Passed
<1>3. \A x \in {"BASE", "HEAD"} : cand[x] \in {Missing, value[x]}
  BY <1>1
<1> QED
  BY <1>1, <1>2, <1>3 DEF Quiet

\* Every step of the capture keeps it, and every edit ends it.
LEMMA NextQuiet == CaptureInv /\ QuietInv /\ [Next]_vars => QuietInv'
<1> SUFFICES ASSUME CaptureInv, QuietInv, [Next]_vars, Len(history') = 1 PROVE Quiet'
  BY DEF QuietInv
<1>1. history \in Seq(Values) /\ Len(history) \in Nat \ {0}
  BY DEF CaptureInv, Types
<1>2. CASE Edit \/ UnseenEdit
  <2>1. history' = Append(history, value')
    BY <1>2 DEF Edit, UnseenEdit, Changed
  <2>2. Len(history') = Len(history) + 1
    BY <1>1, <2>1
  <2> QED
    BY <1>1, <2>2
<1>3. CASE UNCHANGED vars
  <2>1. /\ value' = value /\ stamp' = stamp /\ history' = history /\ handle' = handle
        /\ step' = step /\ at' = at /\ meta' = meta /\ got' = got
        /\ untracked' = untracked /\ attributes' = attributes /\ cand' = cand
        /\ outcome' = outcome
    BY <1>3 DEF vars
  <2>2. Types /\ Quiet
    BY <2>1 DEF QuietInv, CaptureInv
  <2>3. Goes /\ ~ Passes
    BY <2>1, <2>2 DEF Goes, Passes, Advance, Types
  <2>4. UNCHANGED <<tree, meta, got, untracked, attributes>>
    BY <1>3 DEF vars, tree
  <2> QED
    BY <2>1, <2>2, <2>3, <2>4, QuietCheck DEF Quiet
<1>4. CASE Capture
  <2>1. history' = history
    BY <1>4 DEF Capture, ReadBranch, TakeStamp, Open, ReadGit, ReadTree, List, Attributes,
                VerifyMetadata, Resolve, Diff, Reread, Relist, Reattributes, Proceed,
                CommandFails, OverBudget, Fail, tree
  <2>2. Quiet
    BY <2>1 DEF QuietInv
  <2> QED
    BY <1>4, <2>2, QuietTakeStamp, QuietReadGit, QuietReadTree, QuietList, QuietAttributes,
       QuietVerify, QuietChecks DEF Capture
<1> QED
  BY <1>2, <1>3, <1>4 DEF Next

\* A capture is refused only if somebody wrote, if there are too many files,
\* or if a lock of the index was left behind: no other check is in the way of
\* an undisturbed one.
THEOREM NoFalseAlarm == Spec => []QuietTreeIsCaptured
<1>1. Init => CaptureInv /\ QuietInv
  BY InitCapture, InitQuiet
<1>2. CaptureInv /\ QuietInv /\ [Next]_vars => (CaptureInv /\ QuietInv)'
  BY NextCapture, NextQuiet
<1>3. CaptureInv /\ QuietInv => QuietTreeIsCaptured
  <2> SUFFICES ASSUME CaptureInv, QuietInv, outcome = "REFUSED", ~ (Len(history) > 1)
               PROVE  Len(observed) > MaxFiles \/ history[1]["LOCK"] # Missing
    BY DEF QuietTreeIsCaptured
  <2>1. Len(history) \in Nat \ {0} /\ value = history[Len(history)]
    BY DEF CaptureInv, Types
  <2>2. Len(history) = 1
    BY <2>1
  <2> QED
    BY <2>1, <2>2 DEF QuietInv, Quiet
<1> QED
  BY <1>1, <1>2, <1>3, PTL DEF Spec

=============================================================================
