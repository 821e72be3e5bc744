--------------------------- MODULE SessionProofs ---------------------------
(***************************************************************************)
(* NoChatIsLost, HandleIsAsked and ToldOnce, for any account, page size,   *)
(* window, number of messages, sweeps, thread requests and faults; and     *)
(* NoStrangerIsNamed for any book of contacts.                             *)
(*                                                                         *)
(* The argument for a sweep: whatever stands in the pages it has read was  *)
(* in one of them, or a message has moved it since (Covers); and of every  *)
(* message a push is on the wire, was heard or was lost (LinkedNoticed).   *)
(* A chat that no message moved only its page can have, and so every sweep *)
(* that lands finds its participant.                                       *)
(*                                                                         *)
(* The argument for a second copy: the window is counted in events, so a   *)
(* guid leaves it only when SeenMax events came after it (Remembers).      *)
(***************************************************************************)
EXTENDS Session, FiniteSetTheorems, TLAPS

Phases == {"idle", "paging", "answered"}

RouteAnswers(f) ==
  \E empty \in BOOLEAN : ChatRouteAnswers(f, empty) \/ HandleRouteAnswers(f, empty)

SessionTyped ==
  /\ TypeOK
  /\ emitted \in Seq(Nat) /\ wire \in Seq(Nat) /\ heard \in Seq(Nat)
  /\ ToSet(heard) \subseteq DOMAIN filed
  /\ Len(filed) <= MaxFiled
  /\ sweeps \in [Sweeps -> [phase : Phases, offset : Nat, all : Seq(Chats)]]
  /\ contacts \in Seq(Entries) /\ book \in Books

-----------------------------------------------------------------------------
(* Contacts: what a name is given on the strength of *)

(* Of the at most four endings that are tried, the longest that fits.      *)
LEMMA LongestIsLongest ==
  ASSUME NEW index, NEW addr \in Seq(Alnum), FuzzyLengths(index, addr) # {}
  PROVE  /\ Longest(FuzzyLengths(index, addr)) \in FuzzyLengths(index, addr)
         /\ \A k \in FuzzyLengths(index, addr) : k <= Longest(FuzzyLengths(index, addr))
<1> DEFINE L == FuzzyLengths(index, addr)
           n == Len(addr)
<1>1. n \in Nat /\ MinFuzzy \in Nat
  BY ContactsAssumptions
<1>2. \A k \in L : k \in Nat /\ k \in {n, n - 1, n - 2, n - 3}
  BY <1>1 DEF FuzzyLengths
<1>3. \E m \in L : \A k \in L : k <= m
  <2>1. CASE n \in L
    BY <1>1, <1>2, <2>1
  <2>2. CASE n \notin L /\ n - 1 \in L
    BY <1>1, <1>2, <2>2
  <2>3. CASE n \notin L /\ n - 1 \notin L /\ n - 2 \in L
    BY <1>1, <1>2, <2>3
  <2>4. CASE n \notin L /\ n - 1 \notin L /\ n - 2 \notin L
    BY <1>1, <1>2, <2>4
  <2> QED BY <2>1, <2>2, <2>3, <2>4
<1> HIDE DEF L
<1>4. Longest(L) \in L /\ \A k \in L : k <= Longest(L)
  BY <1>3 DEF Longest
<1> QED BY <1>4 DEF L

(* Without an exact match a phone number goes by the longest ending that   *)
(* fits, and by nothing else.                                              *)
LEMMA GroundsAreTheLongest ==
  ASSUME NEW index, NEW address, Normalize(address) \in Seq(Alnum),
         Normalize(address) # <<>>, Kind(address) = "phone",
         Exact(index, "phone", Normalize(address)) = {}
  PROVE  LET addr == Normalize(address)
         IN Grounds(index, address) =
              IF FuzzyLengths(index, addr) = {}
                THEN {}
                ELSE Sharing(index, addr, Longest(FuzzyLengths(index, addr)))
<1> DEFINE addr == Normalize(address)
           L == FuzzyLengths(index, addr)
<1>1. Len(addr) \in Nat /\ MinFuzzy \in Nat
  BY ContactsAssumptions
<1>2. \A i \in DOMAIN index : ~(index[i].kind = "phone" /\ index[i].normalized = addr)
  BY DEF Exact
<1>3. \A i \in DOMAIN index :
        IsGround(index, address, i) <=>
          \E n \in L : i \in Sharing(index, addr, n) /\ \A k \in L : k <= n
  <2> TAKE i \in DOMAIN index
  <2>1. ASSUME IsGround(index, address, i)
        PROVE  \E n \in L : i \in Sharing(index, addr, n) /\ \A k \in L : k <= n
    <3>1. PICK n \in MinFuzzy..Len(addr) :
            /\ index[i].kind = "phone" /\ n + 3 >= Len(addr)
            /\ EndsWith(index[i].normalized, Ending(addr, n))
            /\ \A k \in (n + 1)..Len(addr) : Sharing(index, addr, k) = {}
      BY <1>2, <2>1 DEF IsGround
    <3>2. i \in Sharing(index, addr, n)
      BY <3>1 DEF Sharing
    <3>3. n \in L
      BY <1>1, <3>1, <3>2 DEF FuzzyLengths
    <3>4. \A k \in L : k <= n
      BY <1>1, <3>1 DEF FuzzyLengths
    <3> QED BY <3>2, <3>3, <3>4
  <2>2. ASSUME NEW n \in L, i \in Sharing(index, addr, n), \A k \in L : k <= n
        PROVE  IsGround(index, address, i)
    <3>1. /\ n \in MinFuzzy..Len(addr) /\ n + 3 >= Len(addr)
          /\ index[i].kind = "phone" /\ EndsWith(index[i].normalized, Ending(addr, n))
      BY <1>1, <2>2 DEF FuzzyLengths, Sharing
    <3>2. ASSUME NEW k \in (n + 1)..Len(addr)
          PROVE  Sharing(index, addr, k) = {}
      BY <1>1, <2>2, <3>1, <3>2 DEF FuzzyLengths
    <3> QED BY <3>1, <3>2 DEF IsGround
  <2> QED BY <2>1, <2>2
<1>4. Sharing(index, addr, Longest(L)) \subseteq DOMAIN index
  BY DEF Sharing
<1>5. CASE L = {}
  BY <1>3, <1>5 DEF Grounds
<1>6. CASE L # {}
  <2>1. Longest(L) \in L /\ \A k \in L : k <= Longest(L)
    BY <1>6, LongestIsLongest
  <2>0. L \subseteq Nat
    BY <1>1 DEF FuzzyLengths
  <2>2. \A n \in L : (\A k \in L : k <= n) => n = Longest(L)
    <3> HIDE DEF L
    <3>1. ASSUME NEW n \in L, \A k \in L : k <= n
          PROVE  n <= Longest(L) /\ Longest(L) <= n /\ n \in Nat /\ Longest(L) \in Nat
      BY <2>0, <2>1, <3>1
    <3>2. \A m, n \in Nat : n <= m /\ m <= n => n = m
      OBVIOUS
    <3> QED BY <3>1, <3>2
  <2>3. \A i \in DOMAIN index : IsGround(index, address, i) <=> i \in Sharing(index, addr, Longest(L))
    BY <1>3, <2>1, <2>2
  <2>4. Grounds(index, address) = Sharing(index, addr, Longest(L))
    BY <1>4, <2>3 DEF Grounds
  <2> QED BY <1>6, <2>4
<1> QED BY <1>5, <1>6

(* Whatever is saved and whatever the address: a name is given on the      *)
(* grounds contacts.js:11-18 states and on no others.                      *)
THEOREM NamedOnGroundsOnly ==
  ASSUME NEW index, NEW address, Normalize(address) \in Seq(Alnum)
  PROVE  NamedOnGrounds(index, address)
<1> DEFINE addr == Normalize(address)
           exact == Exact(index, Kind(address), addr)
           fuzzy == Sharing(index, addr, Longest(FuzzyLengths(index, addr)))
<1>0. Kind(address) \in {"phone", "email"} /\ "phone" # "email"
  BY DEF Kind
<1>1. CASE addr = <<>>
  BY <1>1 DEF NamedOnGrounds, Resolve, Grounds
<1>2. CASE addr # <<>> /\ exact # {}
  <2>1. \A i \in DOMAIN index : IsGround(index, address, i) <=> i \in exact
    BY <1>0, <1>2 DEF IsGround, Exact
  <2>2. Grounds(index, address) = exact
    BY <1>2, <2>1 DEF Grounds, Exact
  <2> QED BY <1>2, <2>2 DEF NamedOnGrounds, Resolve, FirstName
<1>3. CASE addr # <<>> /\ exact = {} /\ Kind(address) = "email"
  <2>1. \A i \in DOMAIN index : ~IsGround(index, address, i)
    BY <1>0, <1>3 DEF IsGround, Exact
  <2>2. Grounds(index, address) = {}
    BY <2>1 DEF Grounds
  <2> QED BY <1>3, <2>2 DEF NamedOnGrounds, Resolve
<1>4. CASE addr # <<>> /\ exact = {} /\ Kind(address) = "phone"
  <2>1. CASE FuzzyLengths(index, addr) = {}
    BY <1>0, <1>4, <2>1, GroundsAreTheLongest DEF NamedOnGrounds, Resolve
  <2>2. CASE FuzzyLengths(index, addr) # {}
    <3>1. Grounds(index, address) = fuzzy
      BY <1>4, <2>2, GroundsAreTheLongest
    <3>2. fuzzy # {}
      BY <2>2, LongestIsLongest DEF FuzzyLengths
    <3>3. Resolve(index, address) = FirstName(index, fuzzy)
      BY <1>0, <1>4, <2>2 DEF Resolve
    <3> QED BY <3>1, <3>2, <3>3 DEF NamedOnGrounds, FirstName
  <2> QED BY <2>1, <2>2
<1> QED BY <1>0, <1>1, <1>2, <1>3, <1>4

-----------------------------------------------------------------------------
(* The list of the Mac *)

LEMMA PlaceOf ==
  ASSUME SessionTyped, NEW c \in Chats
  PROVE  /\ Place(c) \in 1..(Len(order) + 1)
         /\ c \in ToSet(order) => Place(c) <= Len(order) /\ order[Place(c)] = c
         /\ c \notin ToSet(order) => Place(c) = Len(order) + 1
<1> DEFINE P(i) == IF c \in ToSet(order)
                     THEN i <= Len(order) /\ order[i] = c
                     ELSE i = Len(order) + 1
<1>1. order \in Seq(Chats) /\ Len(order) \in Nat
  BY DEF SessionTyped, TypeOK
<1>2. \E i \in 1..(Len(order) + 1) : P(i)
  <2>1. CASE c \in ToSet(order)
    <3>1. PICK i \in DOMAIN order : order[i] = c
      BY <2>1 DEF ToSet
    <3> QED BY <1>1, <2>1, <3>1
  <2>2. CASE c \notin ToSet(order)
    BY <1>1, <2>2
  <2> QED BY <2>1, <2>2
<1>3. Place(c) \in 1..(Len(order) + 1) /\ P(Place(c))
  <2> HIDE DEF P
  <2> QED BY <1>2 DEF Place, P
<1> QED BY <1>3

(* Bringing a chat to the front puts no other chat more than one place     *)
(* further back, and loses none.                                           *)
LEMMA ToFrontMoves ==
  ASSUME SessionTyped, NEW c \in Chats
  PROVE  /\ ToFront(c) \in Seq(Chats) /\ IsInjective(ToFront(c))
         /\ ToSet(ToFront(c)) = ToSet(order) \cup {c}
         /\ Len(order) <= Len(ToFront(c))
         /\ \A k \in DOMAIN ToFront(c) :
              ToFront(c)[k] = c \/ \E i \in DOMAIN order : i <= k /\ ToFront(c)[k] = order[i]
<1> DEFINE p == Place(c)
           n == IF p > Len(order) THEN p ELSE Len(order)
           new == ToFront(c)
<1>1. order \in Seq(Chats) /\ Len(order) \in Nat /\ IsInjective(order)
  BY DEF SessionTyped, TypeOK
<1>2. /\ p \in 1..(Len(order) + 1)
      /\ p <= Len(order) => order[p] = c
      /\ p > Len(order) => c \notin ToSet(order)
  BY <1>1, PlaceOf
<1>3. n \in Nat /\ n >= Len(order) /\ (p > Len(order) => n = Len(order) + 1)
      /\ (p <= Len(order) => n = Len(order)) /\ n >= 1
  BY <1>1, <1>2
<1>4. new = [k \in 1..n |-> CASE k = 1           -> c
                              [] k > 1 /\ k <= p -> order[k - 1]
                              [] k > 1 /\ k > p  -> order[k]]
  BY DEF ToFront
<1> HIDE DEF p, n, new
<1>5. \A k \in 1..n :
        /\ k = 1 => new[k] = c
        /\ k > 1 /\ k <= p => k - 1 \in DOMAIN order /\ new[k] = order[k - 1]
        /\ k > 1 /\ k > p => k \in DOMAIN order /\ new[k] = order[k]
  BY <1>1, <1>2, <1>3, <1>4
<1>6. new \in Seq(Chats) /\ DOMAIN new = 1..n /\ Len(new) = n
  <2>1. \A k \in 1..n : new[k] \in Chats
    <3> TAKE k \in 1..n
    <3>1. CASE k = 1
      BY <1>5, <3>1
    <3>2. CASE k > 1 /\ k <= p
      BY <1>1, <1>5, <3>2
    <3>3. CASE k > 1 /\ k > p
      BY <1>1, <1>5, <3>3
    <3> QED BY <1>2, <1>3, <3>1, <3>2, <3>3
  <2>2. new \in [1..n -> Chats]
    BY <1>4, <2>1
  <2> QED BY <1>3, <2>2
<1>7. \A k \in 1..n : k > 1 => new[k] # c
  BY <1>1, <1>2, <1>3, <1>5 DEF IsInjective, ToSet
<1>8. IsInjective(new)
  <2>1. SUFFICES ASSUME NEW k \in 1..n, NEW m \in 1..n, new[k] = new[m], k < m
                 PROVE  FALSE
    BY <1>3, <1>6 DEF IsInjective
  <2>2. k > 1 /\ m > 1
    BY <1>3, <1>5, <1>7, <2>1
  <2>3. PICK i \in DOMAIN order : new[k] = order[i] /\ (k <= p => i = k - 1) /\ (k > p => i = k)
    BY <1>2, <1>3, <1>5, <2>2
  <2>4. PICK j \in DOMAIN order : new[m] = order[j] /\ (m <= p => j = m - 1) /\ (m > p => j = m)
    BY <1>2, <1>3, <1>5, <2>2
  <2>5. i = j
    BY <1>1, <2>1, <2>3, <2>4 DEF IsInjective
  <2> QED BY <1>2, <1>3, <2>1, <2>3, <2>4, <2>5
<1>9. \A k \in 1..n : new[k] = c \/ \E i \in DOMAIN order : i <= k /\ new[k] = order[i]
  BY <1>1, <1>2, <1>3, <1>5
<1>10. \A i \in DOMAIN order : \E k \in 1..n : new[k] = order[i]
  <2> TAKE i \in DOMAIN order
  <2>1. CASE i < p
    <3>1. i + 1 \in 1..n /\ i + 1 > 1 /\ i + 1 <= p /\ (i + 1) - 1 = i
      BY <1>1, <1>2, <1>3, <2>1
    <3> QED BY <1>5, <3>1
  <2>2. CASE i = p
    BY <1>1, <1>2, <1>3, <1>5, <2>2
  <2>3. CASE i > p
    BY <1>1, <1>2, <1>3, <1>5, <2>3
  <2> QED BY <1>1, <1>2, <2>1, <2>2, <2>3
<1>11. ToSet(new) = ToSet(order) \cup {c}
  <2>1. \A x \in ToSet(new) : x \in ToSet(order) \cup {c}
    BY <1>6, <1>9 DEF ToSet
  <2>2. \A x \in ToSet(order) : x \in ToSet(new)
    BY <1>6, <1>10 DEF ToSet
  <2>3. c \in ToSet(new)
    BY <1>3, <1>5, <1>6 DEF ToSet
  <2> QED BY <2>1, <2>2, <2>3
<1> QED BY <1>3, <1>6, <1>8, <1>9, <1>11 DEF new

-----------------------------------------------------------------------------
(* Sequences *)

LEMMA AppendSet ==
  ASSUME NEW S, NEW s \in Seq(S), NEW e \in S
  PROVE  Append(s, e) \in Seq(S) /\ ToSet(Append(s, e)) = ToSet(s) \cup {e}
<1>1. Append(s, e) \in Seq(S) /\ DOMAIN Append(s, e) = 1..(Len(s) + 1) /\ DOMAIN s = 1..Len(s)
      /\ Len(s) \in Nat
  OBVIOUS
<1>2. \A i \in 1..(Len(s) + 1) : Append(s, e)[i] = IF i = Len(s) + 1 THEN e ELSE s[i]
  OBVIOUS
<1>3. \A x \in ToSet(Append(s, e)) : x \in ToSet(s) \cup {e}
  BY <1>1, <1>2 DEF ToSet
<1>4. \A x \in ToSet(s) \cup {e} : x \in ToSet(Append(s, e))
  BY <1>1, <1>2 DEF ToSet
<1> QED BY <1>1, <1>3, <1>4

LEMMA TailSet ==
  ASSUME NEW S, NEW s \in Seq(S), s # <<>>
  PROVE  /\ Head(s) \in S /\ Tail(s) \in Seq(S)
         /\ ToSet(s) = {Head(s)} \cup ToSet(Tail(s))
<1>1. /\ Tail(s) \in Seq(S) /\ Len(Tail(s)) = Len(s) - 1 /\ Len(s) \in Nat /\ Len(s) >= 1
      /\ \A i \in 1..(Len(s) - 1) : Tail(s)[i] = s[i + 1]
      /\ Head(s) = s[1] /\ Head(s) \in S
  OBVIOUS
<1>2. \A x \in ToSet(s) : x \in {Head(s)} \cup ToSet(Tail(s))
  <2> TAKE x \in ToSet(s)
  <2>1. PICK i \in 1..Len(s) : x = s[i]
    BY DEF ToSet
  <2>2. CASE i = 1
    BY <1>1, <2>1, <2>2
  <2>3. CASE i # 1
    <3>1. i - 1 \in 1..(Len(s) - 1) /\ (i - 1) + 1 = i
      BY <1>1, <2>3
    <3>2. x = Tail(s)[i - 1] /\ i - 1 \in DOMAIN Tail(s)
      BY <1>1, <2>1, <3>1
    <3> QED BY <3>2 DEF ToSet
  <2> QED BY <2>2, <2>3
<1>3. \A x \in {Head(s)} \cup ToSet(Tail(s)) : x \in ToSet(s)
  BY <1>1 DEF ToSet
<1> QED BY <1>1, <1>2, <1>3

LEMMA ConcatSet ==
  ASSUME NEW S, NEW s \in Seq(S), NEW t \in Seq(S)
  PROVE  /\ s \o t \in Seq(S) /\ Len(s \o t) = Len(s) + Len(t)
         /\ ToSet(s) \subseteq ToSet(s \o t) /\ ToSet(t) \subseteq ToSet(s \o t)
         /\ ToSet(s \o t) \subseteq ToSet(s) \cup ToSet(t)
<1>1. /\ s \o t \in Seq(S) /\ Len(s \o t) = Len(s) + Len(t) /\ Len(s) \in Nat /\ Len(t) \in Nat
      /\ \A i \in 1..Len(s) : (s \o t)[i] = s[i]
      /\ \A i \in (Len(s) + 1)..(Len(s) + Len(t)) : (s \o t)[i] = t[i - Len(s)]
  OBVIOUS
<1>2. \A x \in ToSet(s) : x \in ToSet(s \o t)
  BY <1>1 DEF ToSet
<1>3. \A x \in ToSet(t) : x \in ToSet(s \o t)
  <2> TAKE x \in ToSet(t)
  <2>1. PICK i \in 1..Len(t) : x = t[i]
    BY DEF ToSet
  <2>2. i + Len(s) \in (Len(s) + 1)..(Len(s) + Len(t)) /\ (i + Len(s)) - Len(s) = i
    BY <1>1
  <2>3. (s \o t)[i + Len(s)] = x /\ i + Len(s) \in DOMAIN (s \o t)
    BY <1>1, <2>1, <2>2
  <2> QED BY <2>3 DEF ToSet
<1>4. \A x \in ToSet(s \o t) : x \in ToSet(s) \cup ToSet(t)
  <2> SUFFICES ASSUME NEW i \in DOMAIN (s \o t) PROVE (s \o t)[i] \in ToSet(s) \cup ToSet(t)
    BY DEF ToSet
  <2>1. CASE i \in 1..Len(s)
    BY <1>1, <2>1 DEF ToSet
  <2>2. CASE i \notin 1..Len(s)
    <3>1. i \in (Len(s) + 1)..(Len(s) + Len(t)) /\ i - Len(s) \in DOMAIN t
      BY <1>1, <2>2
    <3> QED BY <1>1, <3>1 DEF ToSet
  <2> QED BY <2>1, <2>2
<1> QED BY <1>1, <1>2, <1>3, <1>4

LEMMA SliceOf ==
  ASSUME NEW S, NEW s \in Seq(S), NEW m \in Nat \ {0}, NEW n \in Nat
  PROVE  /\ Slice(s, m, n) \in Seq(S)
         /\ Len(Slice(s, m, n)) <= n - m + 1 \/ Len(Slice(s, m, n)) = 0
         /\ n <= Len(s) /\ m <= n + 1 => Len(Slice(s, m, n)) = n - m + 1
         /\ n > Len(s) /\ m <= Len(s) => Len(Slice(s, m, n)) = Len(s) - m + 1
         /\ n > Len(s) /\ m > Len(s) => Len(Slice(s, m, n)) = 0
         /\ \A i \in DOMAIN s : m <= i /\ i <= n => s[i] \in ToSet(Slice(s, m, n))
         /\ ToSet(Slice(s, m, n)) \subseteq ToSet(s)
<1> DEFINE e == IF n > Len(s) THEN Len(s) ELSE n
           t == Slice(s, m, n)
<1>1. Len(s) \in Nat /\ e \in Nat /\ e <= Len(s) /\ e <= n
  OBVIOUS
<1>2. t = SubSeq(s, m, e)
  BY DEF Slice
<1>3. /\ t \in Seq(S) /\ Len(t) = (IF m <= e THEN e - m + 1 ELSE 0)
      /\ \A i \in 1..(e - m + 1) : t[i] = s[m + i - 1]
  <2> HIDE DEF e, t
  <2> QED BY <1>1, <1>2
<1>4. ASSUME NEW i \in DOMAIN s, m <= i, i <= n
      PROVE  s[i] \in ToSet(t)
  <2>1. i <= e /\ i \in Nat
    BY <1>1, <1>4
  <2> HIDE DEF e, t
  <2>2. PICK j \in 1..(e - m + 1) : m + j - 1 = i
    <3>1. i - m + 1 \in 1..(e - m + 1) /\ m + (i - m + 1) - 1 = i
      BY <1>1, <1>4, <2>1
    <3> QED BY <3>1
  <2>3. Len(t) = e - m + 1 /\ DOMAIN t = 1..Len(t)
    BY <1>1, <1>3, <1>4, <2>1
  <2>4. t[j] = s[i] /\ j \in DOMAIN t
    BY <1>3, <2>2, <2>3
  <2> QED BY <2>4 DEF ToSet
<1>5. /\ n <= Len(s) => e = n
      /\ n > Len(s) => e = Len(s)
  BY <1>1
<1> HIDE DEF e, t
<1>6. Len(t) <= n - m + 1 \/ Len(t) = 0
  BY <1>1, <1>3
<1>7. /\ n <= Len(s) /\ m <= n + 1 => Len(t) = n - m + 1
      /\ n > Len(s) /\ m <= Len(s) => Len(t) = Len(s) - m + 1
      /\ n > Len(s) /\ m > Len(s) => Len(t) = 0
  <2>1. n <= Len(s) /\ m <= n + 1 => Len(t) = n - m + 1
    BY <1>1, <1>3, <1>5
  <2>2. n > Len(s) /\ m <= Len(s) => Len(t) = Len(s) - m + 1
    BY <1>1, <1>3, <1>5
  <2>3. n > Len(s) /\ m > Len(s) => Len(t) = 0
    BY <1>1, <1>3, <1>5
  <2> QED BY <2>1, <2>2, <2>3
<1>8. ToSet(t) \subseteq ToSet(s)
  <2> SUFFICES ASSUME NEW i \in DOMAIN t PROVE t[i] \in ToSet(s)
    BY DEF ToSet
  <2>1. i \in 1..(e - m + 1) /\ m + i - 1 \in DOMAIN s
    BY <1>1, <1>3
  <2> QED BY <1>3, <2>1 DEF ToSet
<1> QED BY <1>3, <1>4, <1>6, <1>7, <1>8 DEF t

(* A page of the list: full, or all that is left of it. *)
LEMMA PageOf ==
  ASSUME NEW S, NEW s \in Seq(S), NEW offset \in Nat, offset <= Len(s)
  PROVE  LET page == Slice(s, offset + 1, offset + PageSize)
         IN /\ page \in Seq(S) /\ Len(page) \in Nat
            /\ offset + PageSize <= Len(s) => Len(page) = PageSize
            /\ offset + PageSize > Len(s) => Len(page) = Len(s) - offset
            /\ \A i \in DOMAIN s : offset + 1 <= i /\ i <= offset + PageSize => s[i] \in ToSet(page)
            /\ ToSet(page) \subseteq ToSet(s)
<1> DEFINE m == offset + 1
           n == offset + PageSize
           page == Slice(s, m, n)
<1>1. m \in Nat \ {0} /\ n \in Nat /\ m <= n /\ Len(s) \in Nat /\ PageSize \in Nat
  BY SessionAssumptions
<1> HIDE DEF m, n
<1>2. page \in Seq(S)
  BY <1>1, SliceOf
<1>5. n <= Len(s) /\ m <= n + 1 => Len(page) = n - m + 1
  BY <1>1, SliceOf
<1>6. n > Len(s) /\ m <= Len(s) => Len(page) = Len(s) - m + 1
  BY <1>1, SliceOf
<1>7. n > Len(s) /\ m > Len(s) => Len(page) = 0
  BY <1>1, SliceOf
<1>8. \A i \in DOMAIN s : m <= i /\ i <= n => s[i] \in ToSet(page)
  BY <1>1, SliceOf
<1>9. ToSet(page) \subseteq ToSet(s)
  BY <1>1, SliceOf
<1> HIDE DEF page
<1>3. Len(page) \in Nat
  BY <1>2
<1>4. /\ n <= Len(s) => Len(page) = PageSize
      /\ n > Len(s) => Len(page) = Len(s) - offset
  BY <1>1, <1>5, <1>6, <1>7 DEF m, n
<1> QED BY <1>2, <1>3, <1>4, <1>8, <1>9 DEF m, n, page

(* The window of remembered guids stays a window. *)
LEMMA RememberedIsWindow ==
  ASSUME SessionTyped, NEW g \in Nat, g \notin ToSet(heard)
  PROVE  /\ Remembered(g) \in Seq(Nat) /\ IsInjective(Remembered(g))
         /\ Len(Remembered(g)) <= SeenMax
         /\ ToSet(Remembered(g)) \subseteq ToSet(heard) \cup {g}
<1> DEFINE all == Append(heard, g)
<1>1. /\ heard \in Seq(Nat) /\ IsInjective(heard) /\ Len(heard) <= SeenMax /\ SeenMax \in Nat \ {0}
  BY SessionAssumptions DEF SessionTyped, TypeOK
<1>2. /\ all \in Seq(Nat) /\ Len(all) = Len(heard) + 1 /\ Len(heard) \in Nat
      /\ \A i \in 1..(Len(heard) + 1) : all[i] = IF i = Len(heard) + 1 THEN g ELSE heard[i]
  BY <1>1
<1>3. ToSet(all) = ToSet(heard) \cup {g}
  BY <1>1, AppendSet
<1>4. IsInjective(all)
  <2>1. \A i \in 1..Len(heard) : heard[i] # g
    BY <1>1 DEF ToSet
  <2>2. \A i, j \in 1..Len(heard) : heard[i] = heard[j] => i = j
    BY <1>1 DEF IsInjective
  <2>3. \A i, j \in 1..(Len(heard) + 1) : all[i] = all[j] => i = j
    <3> HIDE DEF all
    <3> QED BY <1>2, <2>1, <2>2
  <2> QED BY <1>2, <2>3 DEF IsInjective
<1>5. CASE Len(all) > SeenMax
  <2>1. Remembered(g) = Tail(all) /\ all # <<>>
    BY <1>2, <1>5 DEF Remembered
  <2>2. /\ Len(Tail(all)) = Len(all) - 1
        /\ \A i \in 1..(Len(all) - 1) : Tail(all)[i] = all[i + 1]
    <3> HIDE DEF all
    <3> QED BY <1>2, <2>1
  <2>3. IsInjective(Tail(all))
    <3>1. Tail(all) \in Seq(Nat) /\ DOMAIN Tail(all) = 1..(Len(all) - 1) /\ DOMAIN all = 1..Len(all)
      <4> HIDE DEF all
      <4> QED BY <1>2, <2>1, <2>2
    <3> HIDE DEF all
    <3> QED BY <1>2, <1>4, <2>2, <3>1 DEF IsInjective
  <2>4. Tail(all) \in Seq(Nat) /\ ToSet(Tail(all)) \subseteq ToSet(all)
    <3> HIDE DEF all
    <3> QED BY <1>2, <2>1, TailSet
  <2> QED BY <1>1, <1>2, <1>3, <2>1, <2>2, <2>3, <2>4
<1>6. CASE ~(Len(all) > SeenMax)
  <2>1. Remembered(g) = all
    BY <1>6 DEF Remembered
  <2> HIDE DEF all
  <2> QED BY <1>1, <1>2, <1>3, <1>4, <1>6, <2>1
<1> QED BY <1>5, <1>6

-----------------------------------------------------------------------------
(* Types *)

LEMMA InitTyped == Init => SessionTyped
<1> SUFFICES ASSUME Init PROVE SessionTyped
  OBVIOUS
<1>1. (CHOOSE c \in Chats : TRUE) \in Chats
  BY SessionAssumptions
<1>2. order \in Seq(Chats) /\ IsInjective(order) /\ filed = <<>> /\ emitted = <<>> /\ wire = <<>>
      /\ heard = <<>> /\ contacts = <<>>
  BY SessionAssumptions DEF Init
<1>3. ToSet(<<>>) = {} /\ IsInjective(<<>>) /\ Len(<<>>) = 0
  BY DEF ToSet, IsInjective
<1>4. sweeps \in [Sweeps -> [phase : Phases, offset : Nat, all : Seq(Chats)]]
  BY DEF Init, IdleSweep, Phases
<1>5. fetches \in [Fetches -> [phase : {"idle", "byChat", "byHandle", "unavailable"},
                               chat : Chats, after : BOOLEAN, asked : BOOLEAN]]
  BY <1>1 DEF Init, IdleFetch
<1>6. /\ configured \in BOOLEAN /\ connection \in {"connecting", "connected", "error"}
      /\ known \subseteq Chats /\ solo \subseteq Solo /\ unheard \subseteq Chats
      /\ landed \in BOOLEAN /\ {refreshes, faults} \subseteq Nat /\ book \in Books
  <2>1. ToSet(Listed) \subseteq Chats
    BY SessionAssumptions DEF ToSet
  <2>2. configured \in BOOLEAN
    BY Zenon DEF Init, LoadConfig
  <2>3. connection \in {"connecting", "connected", "error"}
    BY Zenon DEF Init, AtStart
  <2>4. known \subseteq Chats
    BY <2>1 DEF Init
  <2>5. solo \subseteq Solo /\ unheard \subseteq Chats /\ landed \in BOOLEAN
        /\ refreshes \in Nat /\ faults \in Nat /\ book \in Books
    BY DEF Init
  <2> QED BY <2>2, <2>3, <2>4, <2>5
<1>7. told \in [1..MaxFiled -> Nat]
  BY DEF Init, Nobody
<1>8. \A r \in Sweeps : /\ sweeps[r].phase \in {"idle", "paging", "answered"}
                        /\ sweeps[r].offset \in Nat /\ sweeps[r].all \in Seq(Chats)
  BY <1>4 DEF Phases
<1>9. TypeOK
  BY <1>2, <1>3, <1>5, <1>6, <1>7, <1>8, SessionAssumptions DEF TypeOK
<1> QED BY <1>2, <1>3, <1>4, <1>6, <1>9, SessionAssumptions DEF SessionTyped

LEMMA PushTyped ==
  ASSUME SessionTyped, NEW g \in DOMAIN filed', NEW c \in Chats, Push(g, c),
         DOMAIN filed \subseteq DOMAIN filed', filed' \in Seq(Messages)
  PROVE  /\ emitted' \in Seq(Nat) /\ wire' \in Seq(Nat) /\ unheard' \subseteq Chats
         /\ ToSet(emitted') \cup ToSet(wire') \subseteq DOMAIN filed'
<1>1. /\ emitted \in Seq(Nat) /\ wire \in Seq(Nat) /\ unheard \subseteq Chats
      /\ ToSet(emitted) \cup ToSet(wire) \subseteq DOMAIN filed
  BY DEF SessionTyped, TypeOK
<1>2. g \in Nat
  OBVIOUS
<1>p. /\ emitted' = Append(emitted, g)
      /\ \/ wire' = Append(wire, g) /\ unheard' = unheard
         \/ wire' = wire /\ unheard' = unheard \cup {c}
  BY DEF Push
<1>3. emitted' \in Seq(Nat) /\ ToSet(emitted') = ToSet(emitted) \cup {g}
  <2>1. Append(emitted, g) \in Seq(Nat)
    BY <1>1, <1>2
  <2>2. ToSet(Append(emitted, g)) = ToSet(emitted) \cup {g}
    BY <1>1, AppendSet
  <2> QED BY <1>p, <2>1, <2>2
<1>4. wire' \in Seq(Nat) /\ ToSet(wire') \subseteq ToSet(wire) \cup {g}
  <2>1. Append(wire, g) \in Seq(Nat)
    BY <1>1, <1>2
  <2>2. ToSet(Append(wire, g)) = ToSet(wire) \cup {g}
    BY <1>1, AppendSet
  <2> QED BY <1>1, <1>p, <2>1, <2>2
<1>5. unheard' \subseteq Chats
  BY <1>1, <1>p
<1> QED BY <1>1, <1>3, <1>4, <1>5

LEMMA StepTyped == SessionTyped /\ [Next]_vars => SessionTyped'
<1> SUFFICES ASSUME SessionTyped, [Next]_vars PROVE SessionTyped'
  OBVIOUS
<1> USE DEF macVars, linkVars, daemonVars, jobVars
<1>t. /\ order \in Seq(Chats) /\ IsInjective(order) /\ filed \in Seq(Messages)
      /\ ToSet(emitted) \cup ToSet(wire) \subseteq DOMAIN filed
      /\ configured \in BOOLEAN /\ connection \in {"connecting", "connected", "error"}
      /\ IsInjective(heard) /\ Len(heard) <= SeenMax
      /\ known \subseteq Chats /\ solo \subseteq Solo /\ unheard \subseteq Chats
      /\ fetches \in [Fetches -> [phase : {"idle", "byChat", "byHandle", "unavailable"},
                                  chat : Chats, after : BOOLEAN, asked : BOOLEAN]]
      /\ told \in [1..MaxFiled -> Nat]
      /\ landed \in BOOLEAN /\ refreshes \in Nat /\ faults \in Nat
      /\ emitted \in Seq(Nat) /\ wire \in Seq(Nat) /\ heard \in Seq(Nat)
      /\ ToSet(heard) \subseteq DOMAIN filed
      /\ Len(filed) <= MaxFiled
      /\ sweeps \in [Sweeps -> [phase : Phases, offset : Nat, all : Seq(Chats)]]
      /\ contacts \in Seq(Entries) /\ book \in Books
  BY DEF SessionTyped, TypeOK
<1>j. (CHOOSE c \in Chats : TRUE) \in Chats /\ IdleFetch \in [phase : {"idle"}, chat : Chats, after : BOOLEAN, asked : BOOLEAN]
      /\ IdleSweep \in [phase : Phases, offset : Nat, all : Seq(Chats)]
  BY SessionAssumptions DEF IdleFetch, IdleSweep, Phases
<1>s. ASSUME sweeps' \in [Sweeps -> [phase : Phases, offset : Nat, all : Seq(Chats)]]
      PROVE  \A r \in Sweeps : /\ sweeps'[r].phase \in {"idle", "paging", "answered"}
                               /\ sweeps'[r].offset \in Nat /\ sweeps'[r].all \in Seq(Chats)
  BY <1>s DEF Phases
<1>1. CASE \E c \in Chats, own \in BOOLEAN : MacMessage(c, own)
  <2>1. PICK c \in Chats, own \in BOOLEAN : MacMessage(c, own)
    BY <1>1
  <2>2. /\ filed' = Append(filed, [chat |-> c, own |-> own]) /\ Len(filed) < MaxFiled
        /\ Push(Len(filed) + 1, c)
        /\ order' = IF c \in Orphans THEN order ELSE ToFront(c)
        /\ UNCHANGED <<book, connection, configured, heard, known, solo, contacts, told, landed,
                       sweeps, fetches, refreshes, faults>>
    BY <2>1 DEF MacMessage
  <2>3. filed' \in Seq(Messages) /\ Len(filed') = Len(filed) + 1 /\ Len(filed) \in Nat
        /\ DOMAIN filed = 1..Len(filed) /\ DOMAIN filed' = 1..(Len(filed) + 1)
    BY <1>t, <2>2 DEF Messages
  <2>4. Len(filed') <= MaxFiled
    BY <2>2, <2>3, SessionAssumptions
  <2>5. order' \in Seq(Chats) /\ IsInjective(order')
    BY <1>t, <2>2, ToFrontMoves
  <2>6. Len(filed) + 1 \in DOMAIN filed' /\ DOMAIN filed \subseteq DOMAIN filed'
    BY <2>3
  <2>7. /\ emitted' \in Seq(Nat) /\ wire' \in Seq(Nat) /\ unheard' \subseteq Chats
        /\ ToSet(emitted') \cup ToSet(wire') \subseteq DOMAIN filed'
    BY <2>2, <2>3, <2>6, PushTyped
  <2> QED BY <1>t, <1>s, <2>2, <2>3, <2>4, <2>5, <2>6, <2>7 DEF SessionTyped, TypeOK
<1>2. CASE \E i \in DOMAIN emitted : MacEchoes(i)
  <2>1. PICK i \in DOMAIN emitted : MacEchoes(i)
    BY <1>2
  <2>2. /\ Push(emitted[i], filed[emitted[i]].chat)
        /\ UNCHANGED <<order, filed, book, connection, configured, heard, known, solo, contacts,
                       told, landed, sweeps, fetches, refreshes, faults>>
    BY <2>1 DEF MacEchoes
  <2>3. emitted[i] \in DOMAIN filed' /\ filed[emitted[i]].chat \in Chats
    <3>1. emitted[i] \in ToSet(emitted)
      BY DEF ToSet
    <3>2. emitted[i] \in DOMAIN filed /\ filed' = filed
      BY <1>t, <2>2, <3>1
    <3>3. filed[emitted[i]] \in Messages
      BY <1>t, <3>2
    <3> QED BY <3>2, <3>3 DEF Messages
  <2>4. /\ emitted' \in Seq(Nat) /\ wire' \in Seq(Nat) /\ unheard' \subseteq Chats
        /\ ToSet(emitted') \cup ToSet(wire') \subseteq DOMAIN filed'
    BY <1>t, <2>2, <2>3, PushTyped
  <2> QED BY <1>t, <1>s, <2>2, <2>4 DEF SessionTyped, TypeOK
<1>3. CASE Connect
  BY <1>t, <1>s, <1>3 DEF Connect, SessionTyped, TypeOK
<1>4. CASE \E byServer \in BOOLEAN : Disconnect(byServer)
  <2>1. ChatsOnWire \subseteq Chats
    <3>1. SUFFICES ASSUME NEW i \in DOMAIN wire
                   PROVE  filed[wire[i]].chat \in Chats
      BY DEF ChatsOnWire
    <3>2. wire[i] \in ToSet(wire)
      BY DEF ToSet
    <3>3. filed[wire[i]] \in Messages
      BY <1>t, <3>2
    <3> QED BY <3>3 DEF Messages
  <2>2. ToSet(<<>>) = {} /\ <<>> \in Seq(Nat)
    BY DEF ToSet
  <2> QED BY <1>t, <1>s, <1>4, <2>1, <2>2 DEF Disconnect, LosePushes, Fault, SessionTyped, TypeOK
<1>5. CASE HandleMessage
  <2>1. /\ Head(wire) \in Nat /\ Tail(wire) \in Seq(Nat) /\ ToSet(Tail(wire)) \subseteq ToSet(wire)
        /\ Head(wire) \in ToSet(wire)
    BY <1>t, <1>5, TailSet DEF HandleMessage
  <2>2. /\ wire' = Tail(wire)
        /\ UNCHANGED <<order, filed, emitted, book, connection, configured, solo, contacts, landed,
                       sweeps, fetches, refreshes, unheard, faults>>
    BY <1>5 DEF HandleMessage
  <2>3. filed[Head(wire)].chat \in Chats /\ Head(wire) \in 1..MaxFiled
    <3>1. Head(wire) \in DOMAIN filed
      BY <1>t, <2>1
    <3>2. filed[Head(wire)] \in Messages
      BY <1>t, <3>1
    <3> QED BY <1>t, <3>1, <3>2, SessionAssumptions DEF Messages
  <2>4. /\ heard' \in Seq(Nat) /\ IsInjective(heard') /\ Len(heard') <= SeenMax
        /\ ToSet(heard') \subseteq DOMAIN filed
        /\ known' \subseteq Chats /\ told' \in [1..MaxFiled -> Nat]
    <3>1. CASE filed[Head(wire)].chat \in Orphans \/ Head(wire) \in ToSet(heard)
      BY <1>t, <1>5, <3>1 DEF HandleMessage
    <3>2. CASE ~(filed[Head(wire)].chat \in Orphans \/ Head(wire) \in ToSet(heard))
      <4>1. /\ heard' = Remembered(Head(wire))
            /\ known' = known \cup {filed[Head(wire)].chat}
            /\ told' = [told EXCEPT ![Head(wire)] = @ + 1]
        BY <1>5, <3>2 DEF HandleMessage
      <4> QED BY <1>t, <2>1, <2>3, <3>2, <4>1, RememberedIsWindow
    <3> QED BY <3>1, <3>2
  <2> QED BY <1>t, <1>s, <2>1, <2>2, <2>4 DEF SessionTyped, TypeOK
<1>6. CASE LandContacts
  BY <1>t, <1>s, <1>6, AddressAssumptions DEF LandContacts, SessionTyped, TypeOK
<1>7. CASE ContactsFail
  BY <1>t, <1>s, <1>7 DEF ContactsFail, Fault, SessionTyped, TypeOK
<1>8. CASE \E r \in Sweeps : AskChats(r) \/ ChatsFail(r)
  <2>1. sweeps' \in [Sweeps -> [phase : Phases, offset : Nat, all : Seq(Chats)]] /\ faults' \in Nat
    <3>1. PICK r \in Sweeps : AskChats(r) \/ ChatsFail(r)
      BY <1>8
    <3>2. CASE AskChats(r)
      <4>1. sweeps' = [sweeps EXCEPT ![r].phase = "paging"] /\ faults' = faults
        BY <3>2 DEF AskChats
      <4> QED BY <1>t, <4>1 DEF Phases
    <3>3. CASE ChatsFail(r)
      <4>1. sweeps' = [sweeps EXCEPT ![r] = IdleSweep] /\ faults' = faults + 1
        BY <3>3 DEF ChatsFail, Fault
      <4> QED BY <1>t, <1>j, <4>1
    <3> QED BY <3>1, <3>2, <3>3
  <2>2. UNCHANGED <<macVars, linkVars, configured, daemonVars, fetches, refreshes, unheard>>
    BY <1>8 DEF AskChats, ChatsFail
  <2> QED BY <1>t, <1>s, <2>1, <2>2 DEF SessionTyped, TypeOK
<1>9. CASE \E r \in Sweeps : MacServesChats(r)
  <2>1. PICK r \in Sweeps : MacServesChats(r)
    BY <1>9
  <2>2. UNCHANGED <<macVars, linkVars, configured, daemonVars, fetches, refreshes, unheard, faults>>
    BY <2>1 DEF MacServesChats
  <2> DEFINE page == Slice(order, sweeps[r].offset + 1, sweeps[r].offset + PageSize)
             all  == sweeps[r].all \o page
  <2>3. page \in Seq(Chats) /\ sweeps[r].offset + PageSize \in Nat
    <3>1. sweeps[r] \in [phase : Phases, offset : Nat, all : Seq(Chats)]
      BY <1>t
    <3>2. /\ sweeps[r].offset + 1 \in Nat \ {0} /\ sweeps[r].offset + PageSize \in Nat
      BY <3>1, SessionAssumptions
    <3> QED BY <1>t, <3>2, SliceOf
  <2>4. all \in Seq(Chats)
    BY <1>t, <2>3, ConcatSet
  <2>5. \E s \in [phase : Phases, offset : Nat, all : Seq(Chats)] : sweeps' = [sweeps EXCEPT ![r] = s]
    <3>1. \/ sweeps' = [sweeps EXCEPT ![r] = [phase |-> "answered", offset |-> 0, all |-> all]]
          \/ sweeps' = [sweeps EXCEPT ![r] = [phase |-> "paging", offset |-> sweeps[r].offset + PageSize,
                                             all |-> all]]
      BY <2>1 DEF MacServesChats, NextOffset
    <3> HIDE DEF all
    <3> QED BY <2>3, <2>4, <3>1 DEF Phases
  <2>6. sweeps' \in [Sweeps -> [phase : Phases, offset : Nat, all : Seq(Chats)]]
    BY <1>t, <2>5
  <2> QED BY <1>t, <1>s, <2>2, <2>6 DEF SessionTyped, TypeOK
<1>10. CASE \E r \in Sweeps : LandChats(r)
  <2>1. PICK r \in Sweeps : LandChats(r)
    BY <1>10
  <2>2. /\ landed' = TRUE /\ sweeps' = [sweeps EXCEPT ![r] = IdleSweep]
        /\ solo' = ToSet(Slice(sweeps[r].all, 1, FetchCap)) \cap Solo
        /\ known' = known \cup ToSet(Slice(sweeps[r].all, 1, FetchCap))
        /\ UNCHANGED <<macVars, linkVars, configured, heard, contacts, told, fetches, refreshes,
                       unheard, faults>>
    BY <2>1 DEF LandChats, SoloOf
  <2>3. Slice(sweeps[r].all, 1, FetchCap) \in Seq(Chats)
    BY <1>t, SliceOf, SessionAssumptions
  <2>4. ToSet(Slice(sweeps[r].all, 1, FetchCap)) \subseteq Chats
    BY <2>3 DEF ToSet
  <2>5. sweeps' \in [Sweeps -> [phase : Phases, offset : Nat, all : Seq(Chats)]]
    BY <1>t, <1>j, <2>2
  <2> QED BY <1>t, <1>s, <2>2, <2>4, <2>5 DEF SessionTyped, TypeOK
<1>11. CASE \E f \in Fetches : \/ \E c \in Chats : AskMessages(f, c)
                               \/ RouteAnswers(f) \/ MessagesFail(f)
  <2>1. PICK f \in Fetches : \/ \E c \in Chats : AskMessages(f, c)
                             \/ RouteAnswers(f) \/ MessagesFail(f)
    BY <1>11
  <2>2. UNCHANGED <<macVars, linkVars, configured, daemonVars, sweeps, refreshes, unheard>>
        /\ faults' \in Nat
    BY <1>t, <2>1 DEF AskMessages, RouteAnswers, ChatRouteAnswers, HandleRouteAnswers, MessagesFail, Fault
  <2>3. fetches' \in [Fetches -> [phase : {"idle", "byChat", "byHandle", "unavailable"},
                                  chat : Chats, after : BOOLEAN, asked : BOOLEAN]]
    <3>1. CASE \E c \in Chats : AskMessages(f, c)
      BY <1>t, <3>1 DEF AskMessages
    <3>2. CASE \E empty \in BOOLEAN : ChatRouteAnswers(f, empty)
      <4>1. \/ fetches' = [fetches EXCEPT ![f] = IdleFetch]
            \/ fetches' = [fetches EXCEPT ![f].phase = "byHandle"]
            \/ fetches' = [fetches EXCEPT ![f].phase = "unavailable"]
        BY <3>2 DEF ChatRouteAnswers
      <4>2. CASE fetches' = [fetches EXCEPT ![f] = IdleFetch]
        BY <1>t, <1>j, <4>2
      <4>3. CASE fetches' = [fetches EXCEPT ![f].phase = "byHandle"]
        BY <1>t, <4>3
      <4>4. CASE fetches' = [fetches EXCEPT ![f].phase = "unavailable"]
        BY <1>t, <4>4
      <4> QED BY <4>1, <4>2, <4>3, <4>4
    <3>3. CASE \E empty \in BOOLEAN : HandleRouteAnswers(f, empty)
      <4>1. \/ fetches' = [fetches EXCEPT ![f] = IdleFetch]
            \/ fetches' = [fetches EXCEPT ![f] =
                 [fetches[f] EXCEPT !.phase = "unavailable", !.asked = TRUE]]
        BY <3>3 DEF HandleRouteAnswers
      <4>2. CASE fetches' = [fetches EXCEPT ![f] = IdleFetch]
        BY <1>t, <1>j, <4>2
      <4>3. [fetches[f] EXCEPT !.phase = "unavailable", !.asked = TRUE]
              \in [phase : {"unavailable"}, chat : Chats, after : BOOLEAN, asked : {TRUE}]
        BY <1>t
      <4> QED BY <1>t, <4>1, <4>2, <4>3
    <3>4. CASE MessagesFail(f)
      BY <1>t, <1>j, <3>4 DEF MessagesFail
    <3> QED BY <2>1, <3>1, <3>2, <3>3, <3>4 DEF RouteAnswers
  <2> QED BY <1>t, <1>s, <2>2, <2>3 DEF SessionTyped, TypeOK
<1>12. CASE UNCHANGED vars
  BY <1>t, <1>s, <1>12 DEF vars, SessionTyped, TypeOK
<1> QED BY <1>1, <1>2, <1>3, <1>4, <1>5, <1>6, <1>7, <1>8, <1>9, <1>10, <1>11, <1>12 DEF Next, RouteAnswers

(* The window of remembered guids never overflows nor repeats one, and a   *)
(* participant is kept for 1:1 chats only (bluebubbles.js:191-210).        *)
THEOREM TypeCorrect == Spec => []TypeOK
<1>1. Init => SessionTyped
  BY InitTyped
<1>2. SessionTyped /\ [Next]_vars => SessionTyped'
  BY StepTyped
<1>3. SessionTyped => TypeOK
  BY DEF SessionTyped
<1> QED BY <1>1, <1>2, <1>3, PTL DEF Spec

(* The grounds hold of every book a session ever loads.                    *)
THEOREM NobodyIsMisnamed == Spec => []NoStrangerIsNamed
<1>1. SessionTyped => NoStrangerIsNamed
  BY NamedOnGroundsOnly, AddressAssumptions DEF NoStrangerIsNamed
<1>2. Spec => []SessionTyped
  BY InitTyped, StepTyped, PTL DEF Spec
<1> QED BY <1>1, <1>2, PTL

-----------------------------------------------------------------------------
(* What a sweep has found *)

(* A chat that can move to the front does not without a push. *)
Noticed == (known \cup ChatsOnWire \cup unheard) \ Orphans

HeardIsKnown == \A g \in ToSet(heard) : filed[g].chat \in known

LinkedNoticed == Linked \subseteq Noticed

(* Every chat the daemon or a client has heard of is in the account. *)
OnTheAccount ==
  /\ known \cup Linked \cup Orphans \subseteq ToSet(order)
  /\ \A f \in Fetches : fetches[f].phase # "idle" => fetches[f].chat \in ToSet(order)

(* Of a sweep: in the places its pages were cut from stands nothing it     *)
(* missed but what a message has moved since.                              *)
Covers(r) ==
  /\ Len(sweeps[r].all) <= Len(order) /\ ToSet(sweeps[r].all) \subseteq ToSet(order)
  /\ sweeps[r].phase = "idle" => sweeps[r].offset = 0 /\ sweeps[r].all = <<>>
  /\ sweeps[r].phase = "paging" =>
       /\ Len(sweeps[r].all) = sweeps[r].offset
       /\ \A k \in 1..sweeps[r].offset : order[k] \in ToSet(sweeps[r].all) \cup Linked
  /\ sweeps[r].phase = "answered" /\ BelowTheCap =>
       ToSet(order) \subseteq ToSet(sweeps[r].all) \cup Linked

HasLanded ==
  landed /\ BelowTheCap =>
    /\ ToSet(order) \subseteq known \cup Linked
    /\ (ToSet(order) \ Linked) \cap Solo \subseteq solo

Asked ==
  \A f \in Fetches :
    fetches[f].after =>
      /\ landed
      /\ BelowTheCap /\ fetches[f].phase = "unavailable" /\ fetches[f].chat \in Solo =>
           fetches[f].asked

SessionInv ==
  /\ SessionTyped /\ HeardIsKnown /\ LinkedNoticed /\ OnTheAccount
  /\ \A r \in Sweeps : Covers(r)
  /\ HasLanded /\ Asked

LEMMA InitSessionInv == Init => SessionInv
<1> SUFFICES ASSUME Init PROVE SessionInv
  OBVIOUS
<1>1. SessionTyped
  BY InitTyped
<1>2. HeardIsKnown
  BY DEF Init, HeardIsKnown, ToSet
<1>3. LinkedNoticed /\ OnTheAccount
  <2>1. DOMAIN filed = {}
    BY DEF Init
  <2>2. Linked = {}
    BY <2>1 DEF Linked
  <2> QED BY <2>2, SessionAssumptions DEF Init, LinkedNoticed, OnTheAccount, IdleFetch, ToSet
<1>4. \A r \in Sweeps : Covers(r)
  <2> TAKE r \in Sweeps
  <2>1. sweeps[r] = IdleSweep /\ order \in Seq(Chats)
    BY SessionAssumptions DEF Init
  <2>2. Len(<<>>) = 0 /\ Len(order) \in Nat /\ ToSet(<<>>) = {}
    BY <2>1 DEF ToSet
  <2> QED BY <2>1, <2>2 DEF Covers, IdleSweep
<1>5. HasLanded /\ Asked
  BY DEF Init, HasLanded, Asked, IdleFetch
<1> QED BY <1>1, <1>2, <1>3, <1>4, <1>5 DEF SessionInv

LEMMA PushIsNoticed ==
  ASSUME SessionTyped, NEW g \in DOMAIN filed', NEW c \in Chats, Push(g, c),
         \A i \in DOMAIN filed : i \in DOMAIN filed' /\ filed'[i] = filed[i],
         filed'[g].chat = c
  PROVE  ChatsOnWire \cup unheard \cup {c} \subseteq ChatsOnWire' \cup unheard'
<1>1. wire \in Seq(Nat) /\ ToSet(wire) \subseteq DOMAIN filed
  BY DEF SessionTyped, TypeOK
<1>2. \/ wire' = Append(wire, g) /\ unheard' = unheard
      \/ wire' = wire /\ unheard' = unheard \cup {c}
  BY DEF Push
<1>3. \A i \in DOMAIN wire : filed'[wire[i]].chat = filed[wire[i]].chat
  BY <1>1 DEF ToSet
<1>4. CASE wire' = Append(wire, g) /\ unheard' = unheard
  <2>1. /\ Len(wire') = Len(wire) + 1 /\ DOMAIN wire' = 1..(Len(wire) + 1) /\ Len(wire) \in Nat
        /\ DOMAIN wire = 1..Len(wire)
        /\ \A i \in 1..Len(wire) : wire'[i] = wire[i]
        /\ wire'[Len(wire) + 1] = g
    BY <1>1, <1>4
  <2>2. \A i \in DOMAIN wire : i \in DOMAIN wire' /\ wire'[i] = wire[i]
    BY <2>1
  <2>3. Len(wire) + 1 \in DOMAIN wire'
    BY <2>1
  <2>4. c \in ChatsOnWire'
    BY <2>1, <2>3 DEF ChatsOnWire
  <2>5. ChatsOnWire \subseteq ChatsOnWire'
    BY <1>3, <2>2 DEF ChatsOnWire
  <2> QED BY <1>4, <2>4, <2>5
<1>5. CASE wire' = wire /\ unheard' = unheard \cup {c}
  <2>1. ChatsOnWire \subseteq ChatsOnWire'
    BY <1>3, <1>5 DEF ChatsOnWire
  <2> QED BY <1>5, <2>1
<1> QED BY <1>2, <1>4, <1>5

LEMMA NoticedGrows ==
  ASSUME SessionTyped, HeardIsKnown, [Next]_vars
  PROVE  /\ HeardIsKnown' /\ known \subseteq known'
         /\ Noticed \subseteq Noticed'
<1> USE DEF macVars, linkVars, daemonVars, jobVars
<1>t. /\ filed \in Seq(Messages) /\ wire \in Seq(Nat) /\ emitted \in Seq(Nat)
      /\ ToSet(wire) \subseteq DOMAIN filed /\ ToSet(emitted) \subseteq DOMAIN filed
      /\ ToSet(heard) \subseteq DOMAIN filed /\ heard \in Seq(Nat)
  BY DEF SessionTyped, TypeOK
<1>1. CASE \E c \in Chats, own \in BOOLEAN : MacMessage(c, own)
  <2>1. PICK c \in Chats, own \in BOOLEAN : MacMessage(c, own)
    BY <1>1
  <2>2. /\ filed' = Append(filed, [chat |-> c, own |-> own])
        /\ Push(Len(filed) + 1, c) /\ known' = known /\ heard' = heard
    BY <2>1 DEF MacMessage
  <2>3. /\ Len(filed) + 1 \in DOMAIN filed' /\ filed'[Len(filed) + 1].chat = c
        /\ \A i \in DOMAIN filed : i \in DOMAIN filed' /\ filed'[i] = filed[i]
    BY <1>t, <2>2 DEF Messages
  <2>4. ChatsOnWire \cup unheard \subseteq ChatsOnWire' \cup unheard'
    BY <2>2, <2>3, PushIsNoticed
  <2>5. HeardIsKnown'
    BY <1>t, <2>2, <2>3 DEF HeardIsKnown
  <2> QED BY <2>2, <2>4, <2>5 DEF Noticed
<1>2. CASE \E i \in DOMAIN emitted : MacEchoes(i)
  <2>1. PICK i \in DOMAIN emitted : MacEchoes(i)
    BY <1>2
  <2>2. /\ Push(emitted[i], filed[emitted[i]].chat) /\ known' = known /\ heard' = heard
        /\ filed' = filed
    BY <2>1 DEF MacEchoes
  <2>3. emitted[i] \in DOMAIN filed' /\ filed[emitted[i]].chat \in Chats
    <3>1. emitted[i] \in DOMAIN filed
      BY <1>t DEF ToSet
    <3>2. filed[emitted[i]] \in Messages
      BY <1>t, <3>1
    <3> QED BY <2>2, <3>1, <3>2 DEF Messages
  <2>4. ChatsOnWire \cup unheard \subseteq ChatsOnWire' \cup unheard'
    BY <2>2, <2>3, PushIsNoticed
  <2> QED BY <2>2, <2>4 DEF Noticed, HeardIsKnown
<1>4. CASE \E byServer \in BOOLEAN : Disconnect(byServer)
  <2>1. /\ unheard' = unheard \cup ChatsOnWire
        /\ known' = known /\ heard' = heard /\ filed' = filed
    BY <1>4 DEF Disconnect, LosePushes
  <2> QED BY <2>1 DEF Noticed, HeardIsKnown
<1>5. CASE HandleMessage
  <2> DEFINE g == Head(wire)
             c == filed[g].chat
  <2>1. /\ wire # <<>> /\ wire' = Tail(wire) /\ filed' = filed /\ unheard' = unheard
    BY <1>5 DEF HandleMessage
  <2>2. \A i \in DOMAIN wire : wire[i] = g \/ \E j \in DOMAIN wire' : wire'[j] = wire[i]
    <3>1. /\ g = wire[1] /\ DOMAIN wire = 1..Len(wire) /\ Len(wire) \in Nat
          /\ DOMAIN wire' = 1..(Len(wire) - 1)
          /\ \A j \in 1..(Len(wire) - 1) : wire'[j] = wire[j + 1]
      BY <1>t, <2>1
    <3> HIDE DEF g
    <3>2. TAKE i \in DOMAIN wire
    <3>3. CASE i = 1
      BY <3>1, <3>3
    <3>4. CASE i # 1
      <4>1. i - 1 \in 1..(Len(wire) - 1) /\ wire'[i - 1] = wire[i]
        BY <3>1, <3>4
      <4> QED BY <3>1, <4>1
    <3> QED BY <3>3, <3>4
  <2>3. ChatsOnWire \subseteq ChatsOnWire' \cup {c}
    <3> HIDE DEF g
    <3> QED BY <2>1, <2>2 DEF ChatsOnWire
  <2>4. g \in Nat /\ g \in DOMAIN filed
    <3>1. g = wire[1] /\ 1 \in DOMAIN wire
      BY <1>t, <2>1
    <3> QED BY <1>t, <3>1 DEF ToSet
  <2>5. CASE c \in Orphans \/ g \in ToSet(heard)
    <3>1. known' = known /\ heard' = heard
      BY <1>5, <2>5 DEF HandleMessage
    <3>2. c \in Orphans \cup known
      BY <2>5 DEF HeardIsKnown
    <3> HIDE DEF g, c
    <3> QED BY <2>1, <2>3, <3>1, <3>2 DEF Noticed, HeardIsKnown
  <2>6. CASE ~(c \in Orphans \/ g \in ToSet(heard))
    <3>1. known' = known \cup {c} /\ heard' = Remembered(g)
      BY <1>5, <2>6 DEF HandleMessage
    <3>2. ToSet(heard') \subseteq ToSet(heard) \cup {g}
      <4> HIDE DEF g
      <4> QED BY <2>4, <2>6, <3>1, RememberedIsWindow
    <3>3. HeardIsKnown'
      BY <2>1, <3>1, <3>2 DEF HeardIsKnown
    <3> HIDE DEF g, c
    <3> QED BY <2>1, <2>3, <3>1, <3>3 DEF Noticed
  <2> QED BY <2>5, <2>6
<1>6. CASE \E r \in Sweeps : LandChats(r)
  <2>1. known \subseteq known' /\ UNCHANGED <<wire, filed, unheard, heard>>
    BY <1>6 DEF LandChats
  <2> QED BY <2>1 DEF Noticed, HeardIsKnown, ChatsOnWire
<1>7. ASSUME UNCHANGED <<wire, filed, unheard, heard, known>>
      PROVE  HeardIsKnown' /\ known \subseteq known' /\ Noticed \subseteq Noticed'
  BY <1>7 DEF Noticed, HeardIsKnown, ChatsOnWire
<1>8. CASE Connect \/ LandContacts \/ ContactsFail \/ UNCHANGED vars
  BY <1>7, <1>8 DEF Connect, LandContacts, ContactsFail, vars
<1>9. CASE \E r \in Sweeps : AskChats(r) \/ MacServesChats(r) \/ ChatsFail(r)
  <2>1. UNCHANGED <<wire, filed, unheard, heard, known>>
    BY <1>9 DEF AskChats, MacServesChats, ChatsFail
  <2> QED BY <1>7, <2>1
<1>10. CASE \E f \in Fetches : \/ \E c \in Chats : AskMessages(f, c)
                               \/ RouteAnswers(f) \/ MessagesFail(f)
  <2>1. UNCHANGED <<wire, filed, unheard, heard, known>>
    BY <1>10 DEF AskMessages, RouteAnswers, ChatRouteAnswers, HandleRouteAnswers, MessagesFail
  <2> QED BY <1>7, <2>1
<1> QED BY <1>1, <1>2, <1>4, <1>5, <1>6, <1>8, <1>9, <1>10 DEF Next, RouteAnswers

(* Nothing comes nearer to the front but a chat a message is linked to. *)
LEMMA OrderMoves ==
  ASSUME SessionTyped, [Next]_vars
  PROVE  /\ Linked \subseteq Linked' /\ ToSet(order) \subseteq ToSet(order')
         /\ Linked' \subseteq Linked \cup ToSet(order')
         /\ LinkedNoticed /\ HeardIsKnown => LinkedNoticed'
         /\ Len(order) <= Len(order')
         /\ \A k \in DOMAIN order' :
              \/ order'[k] \in Linked'
              \/ \E i \in DOMAIN order : i <= k /\ order'[k] = order[i]
<1> USE DEF macVars, linkVars, daemonVars, jobVars
<1>t. order \in Seq(Chats) /\ Len(order) \in Nat /\ DOMAIN order = 1..Len(order)
      /\ filed \in Seq(Messages)
  BY DEF SessionTyped, TypeOK
<1>n. LinkedNoticed /\ HeardIsKnown /\ Linked' = Linked => LinkedNoticed'
  BY NoticedGrows DEF LinkedNoticed
<1>1. CASE UNCHANGED <<order, filed>>
  <2>1. Linked' = Linked
    BY <1>1 DEF Linked
  <2> QED BY <1>t, <1>n, <1>1, <2>1
<1>2. CASE \E c \in Chats, own \in BOOLEAN : MacMessage(c, own)
  <2>1. PICK c \in Chats, own \in BOOLEAN : MacMessage(c, own)
    BY <1>2
  <2>2. /\ filed' = Append(filed, [chat |-> c, own |-> own])
        /\ Push(Len(filed) + 1, c) /\ known' = known
        /\ order' = IF c \in Orphans THEN order ELSE ToFront(c)
    BY <2>1 DEF MacMessage
  <2>3. /\ Len(filed) + 1 \in DOMAIN filed' /\ filed'[Len(filed) + 1].chat = c
        /\ DOMAIN filed' = DOMAIN filed \cup {Len(filed) + 1}
        /\ \A i \in DOMAIN filed : i \in DOMAIN filed' /\ filed'[i] = filed[i]
    BY <1>t, <2>2 DEF Messages
  <2>4. Linked' = Linked \cup ({c} \ Orphans)
    BY <2>3 DEF Linked
  <2>5. CASE c \in Orphans
    <3>1. order' = order /\ Linked' = Linked
      BY <2>2, <2>4, <2>5
    <3> QED BY <1>t, <1>n, <3>1
  <2>6. CASE c \notin Orphans
    <3>1. /\ ToSet(order') = ToSet(order) \cup {c} /\ Len(order) <= Len(order')
          /\ \A k \in DOMAIN order' :
               order'[k] = c \/ \E i \in DOMAIN order : i <= k /\ order'[k] = order[i]
      BY <2>2, <2>6, ToFrontMoves
    <3>2. c \in Linked' /\ Linked' = Linked \cup {c}
      BY <2>4, <2>6
    <3>3. ChatsOnWire \cup unheard \cup {c} \subseteq ChatsOnWire' \cup unheard'
      BY <2>2, <2>3, PushIsNoticed
    <3>4. LinkedNoticed => LinkedNoticed'
      BY <2>2, <2>6, <3>2, <3>3 DEF LinkedNoticed, Noticed
    <3> QED BY <3>1, <3>2, <3>4
  <2> QED BY <2>5, <2>6
<1>3. CASE ~\E c \in Chats, own \in BOOLEAN : MacMessage(c, own)
  <2>1. UNCHANGED <<order, filed>>
    BY <1>3 DEF Next, MacEchoes, Connect, Disconnect, LosePushes, HandleMessage, LandContacts,
             ContactsFail, AskChats, MacServesChats, LandChats, ChatsFail, AskMessages,
             RouteAnswers, ChatRouteAnswers, HandleRouteAnswers, MessagesFail, vars
  <2> QED BY <1>1, <2>1
<1> QED BY <1>2, <1>3

(* What was found of the first n chats is found of the first n still. *)
LEMMA FoundStaysFound ==
  ASSUME SessionTyped, SessionTyped', [Next]_vars, NEW found,
         NEW n \in Nat, n <= Len(order),
         \A k \in 1..n : order[k] \in found \cup Linked
  PROVE  /\ \A k \in 1..n : order'[k] \in found \cup Linked'
         /\ n = Len(order) => ToSet(order') \subseteq found \cup Linked'
<1>1. /\ order \in Seq(Chats) /\ order' \in Seq(Chats) /\ Len(order) \in Nat /\ Len(order') \in Nat
      /\ DOMAIN order = 1..Len(order) /\ DOMAIN order' = 1..Len(order')
  BY DEF SessionTyped, TypeOK
<1>2. Linked \subseteq Linked' /\ Len(order) <= Len(order')
  BY OrderMoves
<1>4. ASSUME NEW k \in DOMAIN order', k <= n \/ n = Len(order)
      PROVE  order'[k] \in found \cup Linked'
  <2>1. CASE order'[k] \in Linked'
    BY <2>1
  <2>2. CASE order'[k] \notin Linked'
    <3>1. PICK i \in DOMAIN order : i <= k /\ order'[k] = order[i]
      BY <2>2, OrderMoves
    <3>2. i \in 1..Len(order) /\ i <= k /\ k \in 1..Len(order')
      BY <1>1, <3>1
    <3>3. i \in 1..n
      <4>1. CASE k <= n
        BY <3>2, <4>1
      <4>2. CASE n = Len(order)
        BY <3>2, <4>2
      <4> QED BY <1>4, <4>1, <4>2
    <3> QED BY <1>2, <3>1, <3>3
  <2> QED BY <2>1, <2>2
<1>5. \A k \in 1..n : k \in DOMAIN order'
  BY <1>1, <1>2
<1>6. \A k \in 1..n : order'[k] \in found \cup Linked'
  BY <1>4, <1>5
<1>7. n = Len(order) => ToSet(order') \subseteq found \cup Linked'
  BY <1>4 DEF ToSet
<1> QED BY <1>6, <1>7

LEMMA CoversKept ==
  ASSUME SessionTyped, SessionTyped', [Next]_vars,
         NEW r \in Sweeps, Covers(r), sweeps'[r] = sweeps[r]
  PROVE  Covers(r)'
<1>0. /\ order \in Seq(Chats) /\ order' \in Seq(Chats)
      /\ sweeps[r].all \in Seq(Chats) /\ sweeps[r].offset \in Nat
  BY DEF SessionTyped, TypeOK
<1>1. /\ Len(order) \in Nat /\ Len(order') \in Nat /\ Len(sweeps[r].all) \in Nat
      /\ order \in Seq(Chats) /\ FetchCap \in Nat /\ sweeps[r].offset \in Nat
  BY <1>0, SessionAssumptions
<1>2. Len(order) <= Len(order') /\ ToSet(order) \subseteq ToSet(order')
  BY OrderMoves
<1>3. Len(sweeps'[r].all) <= Len(order') /\ ToSet(sweeps'[r].all) \subseteq ToSet(order')
  BY <1>1, <1>2 DEF Covers
<1>4. CASE sweeps[r].phase = "paging"
  <2>1. \A k \in 1..sweeps[r].offset : order'[k] \in ToSet(sweeps[r].all) \cup Linked'
    <3>1. /\ sweeps[r].offset <= Len(order)
          /\ \A k \in 1..sweeps[r].offset : order[k] \in ToSet(sweeps[r].all) \cup Linked
      BY <1>4 DEF Covers
    <3> QED BY <1>1, <3>1, FoundStaysFound
  <2> QED BY <1>3, <1>4, <2>1 DEF Covers
<1>5. CASE sweeps[r].phase = "answered" /\ BelowTheCap'
  <2>1. BelowTheCap
    BY <1>1, <1>2, <1>5 DEF BelowTheCap
  <2>2. \A k \in 1..Len(order) : order[k] \in ToSet(sweeps[r].all) \cup Linked
    BY <1>1, <1>5, <2>1 DEF Covers, ToSet
  <2>3. ToSet(order') \subseteq ToSet(sweeps[r].all) \cup Linked'
    <3> DEFINE n == Len(order)
    <3>1. n \in Nat /\ n <= Len(order) /\ \A k \in 1..n : order[k] \in ToSet(sweeps[r].all) \cup Linked
      BY <1>1, <2>2
    <3>2. n = Len(order) => ToSet(order') \subseteq ToSet(sweeps[r].all) \cup Linked'
      <4> HIDE DEF n
      <4> QED BY <3>1, FoundStaysFound
    <3> QED BY <3>2
  <2> QED BY <1>3, <1>5, <2>3 DEF Covers
<1>6. CASE sweeps[r].phase # "paging" /\ ~(sweeps[r].phase = "answered" /\ BelowTheCap')
  BY <1>3, <1>6 DEF Covers
<1> QED BY <1>4, <1>5, <1>6

(* A page is cut out of the order of one instant. *)
LEMMA CoversServed ==
  ASSUME SessionTyped, NEW r \in Sweeps, Covers(r), MacServesChats(r)
  PROVE  Covers(r)'
<1> DEFINE offset == sweeps[r].offset
           page   == Slice(order, offset + 1, offset + PageSize)
           all    == sweeps[r].all \o page
<1>1. /\ order \in Seq(Chats) /\ Len(order) \in Nat /\ PageSize \in Nat \ {0} /\ FetchCap \in Nat
      /\ offset \in Nat /\ sweeps[r].all \in Seq(Chats)
      /\ sweeps \in [Sweeps -> [phase : Phases, offset : Nat, all : Seq(Chats)]]
  BY SessionAssumptions DEF SessionTyped, TypeOK
<1>2. /\ order' = order /\ sweeps[r].phase = "paging" /\ Linked' = Linked
      /\ sweeps' = [sweeps EXCEPT ![r] =
          IF Len(page) < PageSize \/ Len(all) >= FetchCap
            THEN [phase |-> "answered", offset |-> 0, all |-> all]
            ELSE [phase |-> "paging", offset |-> offset + PageSize, all |-> all]]
  BY DEF MacServesChats, NextOffset, Linked, macVars, linkVars, daemonVars
<1>3. /\ Len(sweeps[r].all) = offset /\ offset <= Len(order)
      /\ \A k \in 1..offset : order[k] \in ToSet(sweeps[r].all) \cup Linked
  BY <1>2 DEF Covers
<1>4. /\ page \in Seq(Chats) /\ Len(page) \in Nat
      /\ offset + PageSize <= Len(order) => Len(page) = PageSize
      /\ offset + PageSize > Len(order) => Len(page) = Len(order) - offset
      /\ \A i \in DOMAIN order : offset + 1 <= i /\ i <= offset + PageSize => order[i] \in ToSet(page)
      /\ ToSet(page) \subseteq ToSet(order)
  BY <1>1, <1>3, PageOf
<1> HIDE DEF page
<1>5. /\ all \in Seq(Chats) /\ Len(all) = offset + Len(page)
      /\ ToSet(sweeps[r].all) \subseteq ToSet(all) /\ ToSet(page) \subseteq ToSet(all)
      /\ ToSet(all) \subseteq ToSet(sweeps[r].all) \cup ToSet(page)
  BY <1>1, <1>3, <1>4, ConcatSet
<1> HIDE DEF all
<1>6. Len(all) <= Len(order) /\ ToSet(all) \subseteq ToSet(order)
  <2>1. Len(all) <= Len(order)
    BY <1>1, <1>3, <1>4, <1>5
  <2> QED BY <1>4, <1>5, <2>1 DEF Covers
<1>7. \A k \in DOMAIN order : k <= offset + PageSize => order[k] \in ToSet(all) \cup Linked
  <2> TAKE k \in DOMAIN order
  <2>1. CASE k <= offset
    BY <1>1, <1>3, <1>5, <2>1
  <2>2. CASE offset + 1 <= k /\ k <= offset + PageSize
    BY <1>4, <1>5, <2>2
  <2> QED BY <1>1, <2>1, <2>2
<1>8. CASE Len(page) < PageSize \/ Len(all) >= FetchCap
  <2>1. sweeps'[r] = [phase |-> "answered", offset |-> 0, all |-> all]
    BY <1>1, <1>2, <1>8
  <2>2. ASSUME BelowTheCap'
        PROVE  ToSet(order) \subseteq ToSet(all) \cup Linked
    <3>1. Len(order) <= offset + PageSize
      BY <1>1, <1>2, <1>3, <1>4, <1>5, <1>8, <2>2 DEF BelowTheCap
    <3>2. \A k \in DOMAIN order : order[k] \in ToSet(all) \cup Linked
      BY <1>1, <1>7, <3>1
    <3> QED BY <3>2 DEF ToSet
  <2> QED BY <1>2, <1>6, <2>1, <2>2 DEF Covers
<1>9. CASE ~(Len(page) < PageSize \/ Len(all) >= FetchCap)
  <2>1. sweeps'[r] = [phase |-> "paging", offset |-> offset + PageSize, all |-> all]
    BY <1>1, <1>2, <1>9
  <2>2. Len(page) = PageSize /\ Len(all) = offset + PageSize
    BY <1>1, <1>3, <1>4, <1>5, <1>9
  <2>3. \A k \in 1..(offset + PageSize) : order[k] \in ToSet(all) \cup Linked
    BY <1>1, <1>6, <1>7, <2>2
  <2> QED BY <1>2, <1>6, <2>1, <2>2, <2>3 DEF Covers
<1> QED BY <1>8, <1>9

LEMMA StepCovers ==
  ASSUME SessionTyped, SessionTyped', [Next]_vars,
         \A r \in Sweeps : Covers(r), NEW r \in Sweeps
  PROVE  Covers(r)'
<1> USE DEF macVars, linkVars, daemonVars, jobVars
<1>t. /\ sweeps \in [Sweeps -> [phase : Phases, offset : Nat, all : Seq(Chats)]]
      /\ order' \in Seq(Chats) /\ Covers(r)
  BY DEF SessionTyped, TypeOK
<1>0. CASE sweeps'[r] = sweeps[r]
  BY <1>0, CoversKept
<1>1. CASE \E s \in Sweeps : MacServesChats(s)
  <2>1. PICK s \in Sweeps : MacServesChats(s)
    BY <1>1
  <2>2. CASE s = r
    BY <2>1, <2>2, CoversServed
  <2>3. CASE s # r
    BY <1>t, <1>0, <2>1, <2>3 DEF MacServesChats
  <2> QED BY <2>2, <2>3
<1>2. CASE \E s \in Sweeps : AskChats(s)
  <2>1. PICK s \in Sweeps : AskChats(s)
    BY <1>2
  <2>2. sweeps[s].phase = "idle" /\ sweeps' = [sweeps EXCEPT ![s].phase = "paging"] /\ order' = order
    BY <2>1 DEF AskChats
  <2>3. CASE s = r
    <3>1. sweeps[r].offset = 0 /\ sweeps[r].all = <<>>
      BY <2>2, <2>3 DEF Covers
    <3>2. sweeps'[r].phase = "paging" /\ sweeps'[r].offset = 0 /\ sweeps'[r].all = <<>>
      BY <1>t, <2>2, <2>3, <3>1
    <3>3. Len(<<>>) = 0 /\ Len(order') \in Nat /\ ToSet(<<>>) = {}
      BY <1>t DEF ToSet
    <3> QED BY <3>2, <3>3 DEF Covers
  <2>4. CASE s # r
    BY <1>t, <1>0, <2>2, <2>4
  <2> QED BY <2>3, <2>4
<1>3. CASE \E s \in Sweeps : LandChats(s) \/ ChatsFail(s)
  <2>1. PICK s \in Sweeps : sweeps' = [sweeps EXCEPT ![s] = IdleSweep]
    BY <1>3 DEF LandChats, ChatsFail
  <2>2. CASE s = r
    <3>1. sweeps'[r] = IdleSweep
      BY <1>t, <2>1, <2>2
    <3>2. Len(<<>>) = 0 /\ Len(order') \in Nat /\ ToSet(<<>>) = {}
      BY <1>t DEF ToSet
    <3> QED BY <3>1, <3>2 DEF Covers, IdleSweep
  <2>3. CASE s # r
    BY <1>t, <1>0, <2>1, <2>3
  <2> QED BY <2>2, <2>3
<1>4. CASE ~\E s \in Sweeps : MacServesChats(s) \/ AskChats(s) \/ LandChats(s) \/ ChatsFail(s)
  <2>1. sweeps' = sweeps
    BY <1>4 DEF Next, MacMessage, MacEchoes, Connect, Disconnect, LosePushes, HandleMessage,
             LandContacts, ContactsFail, AskMessages, RouteAnswers, ChatRouteAnswers, HandleRouteAnswers,
             MessagesFail, vars
  <2> QED BY <1>0, <2>1
<1> QED BY <1>1, <1>2, <1>3, <1>4

LEMMA StepOnTheAccount == SessionInv /\ SessionTyped' /\ [Next]_vars => OnTheAccount'
<1> SUFFICES ASSUME SessionInv, SessionTyped', [Next]_vars PROVE OnTheAccount'
  OBVIOUS
<1> USE DEF macVars, linkVars, daemonVars, jobVars
<1>t. /\ SessionTyped /\ OnTheAccount
      /\ fetches \in [Fetches -> [phase : {"idle", "byChat", "byHandle", "unavailable"},
                                  chat : Chats, after : BOOLEAN, asked : BOOLEAN]]
      /\ wire \in Seq(Nat) /\ ToSet(wire) \subseteq DOMAIN filed
  BY DEF SessionInv, SessionTyped, TypeOK
<1>1. ToSet(order) \subseteq ToSet(order') /\ Linked' \subseteq Linked \cup ToSet(order')
  BY <1>t, OrderMoves
<1>2. Linked' \cup Orphans \subseteq ToSet(order')
  BY <1>t, <1>1 DEF OnTheAccount
<1>3. known' \subseteq ToSet(order')
  <2>1. CASE HandleMessage
    <3>1. known' \subseteq known \cup ({filed[Head(wire)].chat} \ Orphans) /\ wire # <<>>
      BY <2>1 DEF HandleMessage
    <3>2. Head(wire) \in DOMAIN filed
      <4>1. Head(wire) = wire[1] /\ 1 \in DOMAIN wire
        BY <1>t, <3>1
      <4> QED BY <1>t, <4>1 DEF ToSet
    <3>3. known' \subseteq known \cup Linked
      BY <3>1, <3>2 DEF Linked
    <3> QED BY <1>t, <1>1, <3>3 DEF OnTheAccount
  <2>2. CASE \E r \in Sweeps : LandChats(r)
    <3>1. PICK r \in Sweeps : known' = known \cup ToSet(Slice(sweeps[r].all, 1, FetchCap))
      BY <2>2 DEF LandChats
    <3>2. sweeps[r].all \in Seq(Chats) /\ ToSet(sweeps[r].all) \subseteq ToSet(order)
      BY <1>t DEF SessionInv, SessionTyped, TypeOK, Covers
    <3>3. ToSet(Slice(sweeps[r].all, 1, FetchCap)) \subseteq ToSet(sweeps[r].all)
      <4>1. FetchCap \in Nat /\ 1 \in Nat \ {0}
        BY SessionAssumptions
      <4> QED BY <3>2, <4>1, SliceOf
    <3> QED BY <1>t, <1>1, <3>1, <3>2, <3>3 DEF OnTheAccount
  <2>3. CASE known' = known
    BY <1>t, <1>1, <2>3 DEF OnTheAccount
  <2> QED BY <2>1, <2>2, <2>3 DEF Next, MacMessage, MacEchoes, Connect, Disconnect, LosePushes,
        LandContacts, ContactsFail, AskChats, MacServesChats, ChatsFail, AskMessages,
        RouteAnswers, ChatRouteAnswers, HandleRouteAnswers, MessagesFail, vars
<1>4. ASSUME NEW f \in Fetches, fetches'[f].phase # "idle"
      PROVE  fetches'[f].chat \in ToSet(order')
  <2>1. CASE \E c \in Chats : AskMessages(f, c)
    <3>1. PICK c \in known : fetches' = [fetches EXCEPT ![f] =
            [phase |-> "byChat", chat |-> c, after |-> landed, asked |-> FALSE]]
      BY <2>1 DEF AskMessages
    <3>2. fetches'[f].chat = c
      BY <1>t, <3>1
    <3> QED BY <1>t, <1>1, <3>2 DEF OnTheAccount
  <2>2. CASE fetches[f].phase # "idle" /\ fetches'[f].chat = fetches[f].chat
    BY <1>t, <1>1, <2>2 DEF OnTheAccount
  <2>3. CASE \E empty \in BOOLEAN : ChatRouteAnswers(f, empty)
    <3>1. /\ fetches[f].phase = "byChat"
          /\ \/ fetches' = [fetches EXCEPT ![f] = IdleFetch]
             \/ fetches' = [fetches EXCEPT ![f].phase = "byHandle"]
             \/ fetches' = [fetches EXCEPT ![f].phase = "unavailable"]
      BY <2>3 DEF ChatRouteAnswers
    <3>2. fetches'[f] = IdleFetch \/ fetches'[f].chat = fetches[f].chat
      BY <1>t, <3>1
    <3> QED BY <1>4, <2>2, <3>1, <3>2 DEF IdleFetch
  <2>4. CASE \E empty \in BOOLEAN : HandleRouteAnswers(f, empty)
    <3>1. /\ fetches[f].phase = "byHandle"
          /\ \/ fetches' = [fetches EXCEPT ![f] = IdleFetch]
             \/ fetches' = [fetches EXCEPT ![f] =
                  [fetches[f] EXCEPT !.phase = "unavailable", !.asked = TRUE]]
      BY <2>4 DEF HandleRouteAnswers
    <3>2. fetches'[f] = IdleFetch \/ fetches'[f].chat = fetches[f].chat
      BY <1>t, <3>1
    <3> QED BY <1>4, <2>2, <3>1, <3>2 DEF IdleFetch
  <2>5. CASE MessagesFail(f)
    BY <1>t, <1>4, <2>5 DEF MessagesFail, IdleFetch
  <2>6. CASE fetches'[f] = fetches[f]
    BY <1>4, <2>2, <2>6
  <2>7. CASE \E h \in Fetches \ {f} : \/ \E c \in Chats : AskMessages(h, c)
                                      \/ RouteAnswers(h) \/ MessagesFail(h)
    <3>1. fetches'[f] = fetches[f]
      BY <1>t, <2>7 DEF AskMessages, RouteAnswers, ChatRouteAnswers, HandleRouteAnswers, MessagesFail
    <3> QED BY <2>6, <3>1
  <2>8. CASE UNCHANGED fetches
    BY <2>6, <2>8
  <2> QED BY <2>1, <2>3, <2>4, <2>5, <2>7, <2>8 DEF Next, MacMessage, MacEchoes, Connect,
        Disconnect, LosePushes, HandleMessage, LandContacts, ContactsFail, AskChats,
        MacServesChats, LandChats, ChatsFail, RouteAnswers, vars
<1> QED BY <1>2, <1>3, <1>4 DEF OnTheAccount

LEMMA StepHasLanded == SessionInv /\ SessionTyped' /\ [Next]_vars => HasLanded'
<1> SUFFICES ASSUME SessionInv, SessionTyped', [Next]_vars, landed', BelowTheCap'
             PROVE  /\ ToSet(order') \subseteq known' \cup Linked'
                    /\ (ToSet(order') \ Linked') \cap Solo \subseteq solo'
  BY DEF HasLanded
<1>t. /\ SessionTyped /\ HeardIsKnown /\ OnTheAccount /\ HasLanded
      /\ order \in Seq(Chats) /\ Len(order) \in Nat /\ order' \in Seq(Chats) /\ Len(order') \in Nat
  BY DEF SessionInv, SessionTyped, TypeOK
<1>0. Len(order) <= Len(order') /\ BelowTheCap
  <2>1. Len(order) <= Len(order')
    BY <1>t, OrderMoves
  <2> QED BY <1>t, <2>1, SessionAssumptions DEF BelowTheCap
<1>1. ASSUME NEW found, ToSet(order) \subseteq found \cup Linked
      PROVE  ToSet(order') \subseteq found \cup Linked'
  <2>1. \A k \in 1..Len(order) : order[k] \in found \cup Linked
    BY <1>t, <1>1 DEF ToSet
  <2> QED BY <1>t, <2>1, FoundStaysFound
<1>2. CASE \E r \in Sweeps : LandChats(r)
  <2>1. PICK r \in Sweeps : LandChats(r)
    BY <1>2
  <2> DEFINE all == sweeps[r].all
  <2>2. /\ sweeps[r].phase = "answered" /\ order' = order
        /\ solo' = ToSet(Slice(all, 1, FetchCap)) \cap Solo
        /\ known' = known \cup ToSet(Slice(all, 1, FetchCap))
    BY <2>1 DEF LandChats, SoloOf, macVars
  <2>3. all \in Seq(Chats) /\ Len(all) <= Len(order) /\ ToSet(order) \subseteq ToSet(all) \cup Linked
    BY <1>t, <1>0, <2>2 DEF SessionInv, Covers, SessionTyped, TypeOK
  <2>4. ToSet(all) \subseteq ToSet(Slice(all, 1, FetchCap))
    <3> HIDE DEF all
    <3>1. FetchCap \in Nat /\ 1 \in Nat \ {0} /\ Len(all) <= FetchCap
      BY <1>t, <1>0, <2>3, SessionAssumptions DEF BelowTheCap
    <3>2. \A i \in DOMAIN all : 1 <= i /\ i <= FetchCap => all[i] \in ToSet(Slice(all, 1, FetchCap))
      BY <2>3, <3>1, SliceOf
    <3>3. \A i \in DOMAIN all : 1 <= i /\ i <= FetchCap
      BY <2>3, <3>1
    <3> QED BY <3>2, <3>3 DEF ToSet
  <2>5. ToSet(order') \subseteq ToSet(all) \cup Linked'
    BY <1>1, <2>3
  <2> QED BY <2>2, <2>4, <2>5
<1>3. CASE ~\E r \in Sweeps : LandChats(r)
  <2>1. landed' = landed /\ solo' = solo
    BY <1>3 DEF Next, MacMessage, MacEchoes, Connect, Disconnect, LosePushes, HandleMessage,
             LandContacts, ContactsFail, AskChats, MacServesChats, ChatsFail, AskMessages,
             RouteAnswers, ChatRouteAnswers, HandleRouteAnswers, MessagesFail, vars, daemonVars
  <2>2. ToSet(order) \subseteq known \cup Linked /\ (ToSet(order) \ Linked) \cap Solo \subseteq solo
    BY <1>t, <1>0, <2>1 DEF HasLanded
  <2>3. ToSet(order') \subseteq known \cup Linked'
    BY <1>1, <2>2
  <2>4. known \subseteq known'
    BY <1>t, NoticedGrows
  <2>5. ToSet(order') \subseteq ((ToSet(order) \ Linked) \cup Linked')
    <3>1. ToSet(order) \subseteq (ToSet(order) \ Linked) \cup Linked
      OBVIOUS
    <3> QED BY <1>1, <3>1
  <2> QED BY <2>1, <2>2, <2>3, <2>4, <2>5
<1> QED BY <1>2, <1>3

LEMMA StepAsked == SessionInv /\ SessionTyped' /\ [Next]_vars => Asked'
<1> SUFFICES ASSUME SessionInv, SessionTyped', [Next]_vars, NEW f \in Fetches, fetches'[f].after
             PROVE  /\ landed'
                    /\ BelowTheCap' /\ fetches'[f].phase = "unavailable"
                       /\ fetches'[f].chat \in Solo => fetches'[f].asked
  BY DEF Asked
<1> USE DEF macVars, linkVars, daemonVars, jobVars
<1>t. /\ SessionTyped /\ OnTheAccount /\ HasLanded /\ Asked
      /\ fetches \in [Fetches -> [phase : {"idle", "byChat", "byHandle", "unavailable"},
                                  chat : Chats, after : BOOLEAN, asked : BOOLEAN]]
      /\ Len(order) \in Nat /\ Len(order') \in Nat /\ FetchCap \in Nat
  <2>1. order \in Seq(Chats) /\ order' \in Seq(Chats)
    BY DEF SessionInv, SessionTyped, TypeOK
  <2>2. Len(order) \in Nat /\ Len(order') \in Nat /\ FetchCap \in Nat
    BY <2>1, SessionAssumptions
  <2> QED BY <2>2 DEF SessionInv, SessionTyped, TypeOK
<1>0. BelowTheCap' => BelowTheCap
  <2>1. Len(order) <= Len(order')
    BY <1>t, OrderMoves
  <2> QED BY <1>t, <2>1 DEF BelowTheCap
<1>1. landed => landed'
  BY <1>t DEF Next, MacMessage, MacEchoes, Connect, Disconnect, LosePushes, HandleMessage,
       LandContacts, ContactsFail, AskChats, MacServesChats, LandChats, ChatsFail, AskMessages,
       RouteAnswers, ChatRouteAnswers, HandleRouteAnswers, MessagesFail, vars
<1>2. CASE fetches'[f] = fetches[f]
  BY <1>t, <1>0, <1>1, <1>2 DEF Asked
<1>3. CASE \E c \in Chats : AskMessages(f, c)
  <2>1. PICK c \in Chats : fetches' = [fetches EXCEPT ![f] =
          [phase |-> "byChat", chat |-> c, after |-> landed, asked |-> FALSE]]
    BY <1>3 DEF AskMessages
  <2>2. fetches'[f] = [phase |-> "byChat", chat |-> c, after |-> landed, asked |-> FALSE]
    BY <1>t, <2>1
  <2> QED BY <1>1, <2>2
<1>4. CASE \E empty \in BOOLEAN : ChatRouteAnswers(f, empty)
  <2>1. PICK empty \in BOOLEAN : ChatRouteAnswers(f, empty)
    BY <1>4
  <2>2. fetches[f].phase = "byChat" /\ PageMayBe(fetches[f].chat, empty)
    BY <2>1 DEF ChatRouteAnswers
  <2>3. CASE ~empty
    <3>1. fetches' = [fetches EXCEPT ![f] = IdleFetch]
      BY <2>1, <2>3 DEF ChatRouteAnswers
    <3> QED BY <1>t, <3>1 DEF IdleFetch
  <2>4. CASE empty /\ fetches[f].chat \in solo
    <3>1. fetches' = [fetches EXCEPT ![f].phase = "byHandle"]
      BY <2>1, <2>4 DEF ChatRouteAnswers
    <3>2. fetches'[f].after = fetches[f].after /\ fetches'[f].phase = "byHandle"
      BY <1>t, <3>1
    <3> QED BY <1>t, <1>1, <3>2 DEF Asked
  <2>5. CASE empty /\ fetches[f].chat \notin solo
    <3>1. fetches' = [fetches EXCEPT ![f].phase = "unavailable"]
      BY <2>1, <2>5 DEF ChatRouteAnswers
    <3>2. fetches'[f].after = fetches[f].after /\ fetches'[f].chat = fetches[f].chat
      BY <1>t, <3>1
    <3>3. landed
      BY <1>t, <3>2 DEF Asked
    <3>4. fetches[f].chat \in ToSet(order) \ Linked
      BY <1>t, <2>2, <2>5 DEF OnTheAccount, PageMayBe
    <3>5. BelowTheCap => fetches[f].chat \notin Solo
      BY <1>t, <2>5, <3>3, <3>4 DEF HasLanded
    <3> QED BY <1>0, <1>1, <3>2, <3>3, <3>5
  <2> QED BY <2>3, <2>4, <2>5
<1>5. CASE \E empty \in BOOLEAN : HandleRouteAnswers(f, empty)
  <2>1. \/ fetches' = [fetches EXCEPT ![f] = IdleFetch]
        \/ fetches' = [fetches EXCEPT ![f] =
             [fetches[f] EXCEPT !.phase = "unavailable", !.asked = TRUE]]
    BY <1>5 DEF HandleRouteAnswers
  <2>2. \/ fetches'[f] = IdleFetch
        \/ fetches'[f].after = fetches[f].after /\ fetches'[f].asked
    BY <1>t, <2>1
  <2>3. CASE fetches'[f] = IdleFetch
    BY <2>3 DEF IdleFetch
  <2>4. CASE fetches'[f].after = fetches[f].after /\ fetches'[f].asked
    BY <1>t, <1>1, <2>4 DEF Asked
  <2> QED BY <2>2, <2>3, <2>4
<1>6. CASE MessagesFail(f)
  BY <1>t, <1>6 DEF MessagesFail, IdleFetch
<1>7. CASE \E h \in Fetches \ {f} : \/ \E c \in Chats : AskMessages(h, c)
                                    \/ RouteAnswers(h) \/ MessagesFail(h)
  <2>1. fetches'[f] = fetches[f]
    BY <1>t, <1>7 DEF AskMessages, RouteAnswers, ChatRouteAnswers, HandleRouteAnswers, MessagesFail
  <2> QED BY <1>2, <2>1
<1>8. CASE UNCHANGED fetches
  BY <1>2, <1>8
<1> QED BY <1>3, <1>4, <1>5, <1>6, <1>7, <1>8 DEF Next, MacMessage, MacEchoes, Connect, Disconnect,
      LosePushes, HandleMessage, LandContacts, ContactsFail, AskChats, MacServesChats, LandChats,
      ChatsFail, RouteAnswers, vars

LEMMA StepSessionInv == SessionInv /\ [Next]_vars => SessionInv'
<1> SUFFICES ASSUME SessionInv, [Next]_vars PROVE SessionInv'
  OBVIOUS
<1>1. SessionTyped /\ HeardIsKnown /\ LinkedNoticed /\ \A r \in Sweeps : Covers(r)
  BY DEF SessionInv
<1>2. SessionTyped'
  BY <1>1, StepTyped
<1>3. HeardIsKnown'
  BY <1>1, NoticedGrows
<1>4. LinkedNoticed' /\ OnTheAccount'
  BY <1>1, <1>2, OrderMoves, StepOnTheAccount
<1>5. (\A r \in Sweeps : Covers(r))'
  BY <1>1, <1>2, StepCovers
<1>6. HasLanded' /\ Asked'
  BY <1>2, StepHasLanded, StepAsked
<1> QED BY <1>2, <1>3, <1>4, <1>5, <1>6 DEF SessionInv

(* Paging by an offset into a moving list loses no chat, for any page size *)
(* and any number of messages and sweeps (bluebubbles.js:53-59, 292-305).  *)
THEOREM SweepsLoseNoChat == Spec => []NoChatIsLost
<1>1. SessionInv => NoChatIsLost
  BY DEF SessionInv, HasLanded, NoChatIsLost, LinkedNoticed, Noticed
<1> QED BY <1>1, InitSessionInv, StepSessionInv, PTL DEF Spec

(* Whatever sweeps come and go, a 1:1 thread asked for after one has       *)
(* landed is unavailable only when its handle was asked too and had        *)
(* nothing (bluebubbles.js:204-212, 228-232).                              *)
THEOREM HandlesAreAsked == Spec => []HandleIsAsked
<1>1. SessionInv => HandleIsAsked
  BY DEF SessionInv, Asked, HandleIsAsked
<1> QED BY <1>1, InitSessionInv, StepSessionInv, PTL DEF Spec
-----------------------------------------------------------------------------
(* The second copy of a send *)

(* How many of the emitted events were handled or lost. *)
Arrivals == Len(emitted) - Len(wire)

WireIsTheLatest ==
  /\ Len(wire) <= Len(emitted)
  /\ \A k \in DOMAIN wire : wire[k] = emitted[Arrivals + k]
  /\ connection # "connected" => wire = <<>>

CopiesAreClose ==
  \A p, q \in DOMAIN emitted : emitted[p] = emitted[q] => q - p <= SeenMax

(* The window still holds g, or moved on since g was emitted at p. *)
Remembers(h, g, p, n) ==
  \/ n - p >= SeenMax
  \/ \E k \in DOMAIN h : h[k] = g /\ Len(h) - k <= n - p

ToldIsRemembered ==
  \A g \in DOMAIN told :
    told[g] # 0 => /\ told[g] = 1
                   /\ \E p \in 1..Arrivals : emitted[p] = g /\ Remembers(heard, g, p, Arrivals)

ToldInvariant == SessionTyped /\ WireIsTheLatest /\ CopiesAreClose /\ ToldIsRemembered

LEMMA PushKeepsUp ==
  ASSUME SessionTyped, WireIsTheLatest, NEW g \in Nat, NEW c, Push(g, c), connection' = connection
  PROVE  /\ WireIsTheLatest' /\ emitted' = Append(emitted, g)
         /\ Arrivals \in Nat /\ Arrivals' \in Nat /\ Arrivals <= Arrivals'
<1>1. emitted \in Seq(Nat) /\ wire \in Seq(Nat) /\ emitted' = Append(emitted, g)
  BY DEF SessionTyped, Push
<1>2. /\ DOMAIN wire = 1..Len(wire) /\ Len(wire) \in Nat /\ Len(emitted) \in Nat
      /\ Len(wire) <= Len(emitted)
      /\ \A k \in 1..Len(wire) : wire[k] = emitted[Len(emitted) - Len(wire) + k]
  BY <1>1 DEF WireIsTheLatest, Arrivals
<1>3. /\ Len(emitted') = Len(emitted) + 1 /\ emitted'[Len(emitted) + 1] = g
      /\ \A k \in 1..Len(emitted) : emitted'[k] = emitted[k]
  BY <1>1
<1>4. CASE connection = "connected"
  <2>1. wire' = Append(wire, g)
    BY <1>4 DEF Push
  <2>2. /\ Len(wire') = Len(wire) + 1 /\ DOMAIN wire' = 1..(Len(wire) + 1)
        /\ wire'[Len(wire) + 1] = g /\ \A k \in 1..Len(wire) : wire'[k] = wire[k]
    BY <1>1, <2>1
  <2>3. \A k \in 1..(Len(wire) + 1) : wire'[k] = emitted'[Len(emitted) - Len(wire) + k]
    <3> SUFFICES ASSUME NEW k \in 1..(Len(wire) + 1)
                 PROVE  wire'[k] = emitted'[Len(emitted) - Len(wire) + k]
      OBVIOUS
    <3>1. CASE k = Len(wire) + 1
      <4>1. Len(emitted) - Len(wire) + k = Len(emitted) + 1
        BY <1>2, <3>1
      <4> QED BY <1>3, <2>2, <3>1, <4>1
    <3>2. CASE k # Len(wire) + 1
      <4>1. k \in 1..Len(wire) /\ Len(emitted) - Len(wire) + k \in 1..Len(emitted)
        BY <1>2, <3>2
      <4> QED BY <1>2, <1>3, <2>2, <4>1
    <3> QED BY <3>1, <3>2
  <2>4. Arrivals' = Arrivals /\ Arrivals = Len(emitted) - Len(wire) /\ Arrivals \in Nat
    BY <1>2, <1>3, <2>2 DEF Arrivals
  <2>5. \A k \in DOMAIN wire' : wire'[k] = emitted'[Arrivals' + k]
    BY <2>2, <2>3, <2>4
  <2>6. Len(wire') <= Len(emitted')
    BY <1>2, <1>3, <2>2
  <2>7. WireIsTheLatest'
    BY <1>4, <2>5, <2>6 DEF WireIsTheLatest
  <2>8. Arrivals' \in Nat /\ Arrivals <= Arrivals'
    BY <2>4
  <2> QED BY <1>1, <2>4, <2>7, <2>8
<1>5. CASE connection # "connected"
  <2>1. wire = <<>> /\ wire' = <<>>
    BY <1>5 DEF Push, WireIsTheLatest
  <2> QED BY <1>1, <1>2, <1>3, <2>1 DEF WireIsTheLatest, Arrivals
<1> QED BY <1>4, <1>5

(* A window that moves on by one event forgets one guid at most. *)
LEMMA RemembersLonger ==
  ASSUME NEW h \in Seq(Nat), NEW g, NEW p \in Nat, NEW n \in Nat, NEW m \in Nat, n <= m,
         Remembers(h, g, p, n)
  PROVE  Remembers(h, g, p, m)
BY SessionAssumptions DEF Remembers

LEMMA RemembersAdded ==
  ASSUME SessionTyped, NEW new \in Nat, NEW g, NEW p \in Nat, NEW n \in Nat,
         Remembers(heard, g, p, n)
  PROVE  Remembers(Remembered(new), g, p, n + 1)
<1> DEFINE all == Append(heard, new)
<1>1. heard \in Seq(Nat) /\ Len(heard) <= SeenMax /\ SeenMax \in Nat \ {0}
  BY SessionAssumptions DEF SessionTyped, TypeOK
<1>2. CASE n - p >= SeenMax
  BY <1>1, <1>2 DEF Remembers
<1>3. ASSUME NEW k \in DOMAIN heard, heard[k] = g, Len(heard) - k <= n - p
      PROVE  Remembers(Remembered(new), g, p, n + 1)
  <2>1. /\ k \in 1..Len(heard) /\ all \in Seq(Nat) /\ Len(all) = Len(heard) + 1 /\ all[k] = g
        /\ Len(heard) \in Nat
    BY <1>1, <1>3
  <2> HIDE DEF all
  <2>2. CASE Len(all) > SeenMax /\ k = 1
    BY <1>1, <1>3, <2>1, <2>2 DEF Remembers
  <2>3. CASE Len(all) > SeenMax /\ k # 1
    <3>1. Remembered(new) = Tail(all)
      BY <2>3 DEF Remembered, all
    <3>2. k - 1 \in DOMAIN Tail(all) /\ Tail(all)[k - 1] = g /\ Len(Tail(all)) = Len(heard)
      BY <2>1, <2>3
    <3>3. Len(Tail(all)) - (k - 1) <= n + 1 - p
      BY <1>3, <2>1, <3>2
    <3> QED BY <3>1, <3>2, <3>3 DEF Remembers
  <2>4. CASE ~(Len(all) > SeenMax)
    <3>1. Remembered(new) = all
      BY <2>4 DEF Remembered, all
    <3>2. k \in DOMAIN all /\ Len(all) - k <= n + 1 - p
      BY <1>3, <2>1
    <3> QED BY <2>1, <3>1, <3>2 DEF Remembers
  <2> QED BY <2>2, <2>3, <2>4
<1> QED BY <1>2, <1>3 DEF Remembers

LEMMA RemembersNew ==
  ASSUME SessionTyped, NEW g \in Nat, NEW n \in Nat
  PROVE  Remembers(Remembered(g), g, n, n)
<1> DEFINE all == Append(heard, g)
<1>1. heard \in Seq(Nat) /\ SeenMax \in Nat \ {0}
  BY SessionAssumptions DEF SessionTyped
<1>2. all \in Seq(Nat) /\ Len(all) = Len(heard) + 1 /\ all[Len(all)] = g /\ Len(heard) \in Nat
  BY <1>1
<1>3. Remembered(g) = IF Len(all) > SeenMax THEN Tail(all) ELSE all
  BY DEF Remembered
<1> HIDE DEF all
<1>4. CASE Len(all) > SeenMax
  <2>1. /\ Len(all) - 1 \in DOMAIN Tail(all) /\ Tail(all)[Len(all) - 1] = g
        /\ Len(Tail(all)) = Len(all) - 1
    BY <1>1, <1>2, <1>4
  <2>2. Len(Tail(all)) - (Len(all) - 1) <= n - n
    BY <1>2, <2>1
  <2>3. Remembered(g) = Tail(all)
    BY <1>3, <1>4
  <2> QED BY <2>1, <2>2, <2>3 DEF Remembers
<1>5. CASE ~(Len(all) > SeenMax)
  <2>1. Len(all) \in DOMAIN all
    BY <1>2
  <2> QED BY <1>2, <1>3, <1>5, <2>1 DEF Remembers
<1> QED BY <1>4, <1>5

LEMMA StepWire ==
  ASSUME ToldInvariant, [Next]_vars
  PROVE  /\ WireIsTheLatest' /\ Arrivals \in Nat /\ Arrivals' \in Nat /\ Arrivals <= Arrivals'
         /\ \/ emitted' = emitted
            \/ \E g \in Nat : emitted' = Append(emitted, g)
<1>1. /\ emitted \in Seq(Nat) /\ wire \in Seq(Nat) /\ WireIsTheLatest /\ SessionTyped
      /\ Len(wire) <= Len(emitted) /\ Len(filed) \in Nat
  BY DEF ToldInvariant, SessionTyped, WireIsTheLatest, TypeOK
<1>2. Arrivals \in Nat
  BY <1>1 DEF Arrivals
<1>3. ASSUME NEW c \in Chats, NEW own \in BOOLEAN, MacMessage(c, own)
      PROVE  WireIsTheLatest' /\ Arrivals' \in Nat /\ Arrivals <= Arrivals'
             /\ emitted' = Append(emitted, Len(filed) + 1)
  <2>1. Push(Len(filed) + 1, c) /\ connection' = connection /\ Len(filed) + 1 \in Nat
    BY <1>1, <1>3 DEF MacMessage
  <2> QED BY <1>1, <2>1, PushKeepsUp
<1>4. ASSUME NEW i \in DOMAIN emitted, MacEchoes(i)
      PROVE  WireIsTheLatest' /\ Arrivals' \in Nat /\ Arrivals <= Arrivals'
             /\ emitted' = Append(emitted, emitted[i])
  <2>1. Push(emitted[i], filed[emitted[i]].chat) /\ connection' = connection /\ emitted[i] \in Nat
    BY <1>1, <1>4 DEF MacEchoes
  <2> QED BY <1>1, <2>1, PushKeepsUp
<1>5. CASE HandleMessage
  <2>1. /\ wire # <<>> /\ wire' = Tail(wire) /\ emitted' = emitted /\ connection' = connection
    BY <1>5 DEF HandleMessage, macVars
  <2>2. /\ Len(wire') = Len(wire) - 1 /\ DOMAIN wire' = 1..(Len(wire) - 1) /\ Len(wire) \in Nat \ {0}
        /\ \A k \in 1..(Len(wire) - 1) : wire'[k] = wire[k + 1]
    BY <1>1, <2>1
  <2>3. Arrivals' = Arrivals + 1
    BY <1>1, <2>1, <2>2 DEF Arrivals
  <2>4. \A k \in DOMAIN wire' : wire'[k] = emitted'[Arrivals' + k]
    <3> SUFFICES ASSUME NEW k \in 1..(Len(wire) - 1) PROVE wire[k + 1] = emitted[Arrivals + 1 + k]
      BY <2>1, <2>2, <2>3
    <3>1. k + 1 \in DOMAIN wire
      BY <1>1, <2>2
    <3>2. Arrivals + (k + 1) = Arrivals + 1 + k
      BY <1>2
    <3> QED BY <3>1, <3>2 DEF ToldInvariant, WireIsTheLatest
  <2>5. connection' # "connected" => wire' = <<>>
    BY <2>1 DEF ToldInvariant, WireIsTheLatest
  <2>6. Len(wire') <= Len(emitted')
    BY <1>1, <2>1, <2>2
  <2> QED BY <1>2, <2>1, <2>3, <2>4, <2>5, <2>6 DEF WireIsTheLatest
<1>6. CASE \E byServer \in BOOLEAN : Disconnect(byServer)
  <2>1. wire' = <<>> /\ emitted' = emitted
    BY <1>6 DEF Disconnect, LosePushes, macVars
  <2>2. Len(wire') = 0 /\ DOMAIN wire' = {} /\ Len(emitted) \in Nat /\ Len(wire) \in Nat
    BY <1>1, <2>1
  <2> QED BY <1>1, <2>1, <2>2 DEF WireIsTheLatest, Arrivals
<1>7. CASE Connect
  BY <1>1, <1>2, <1>7 DEF Connect, macVars, WireIsTheLatest, Arrivals
<1>8. CASE UNCHANGED <<emitted, wire, connection>>
  BY <1>1, <1>2, <1>8 DEF WireIsTheLatest, Arrivals
<1>9. \/ \E c \in Chats, own \in BOOLEAN : MacMessage(c, own)
      \/ \E i \in DOMAIN emitted : MacEchoes(i)
      \/ HandleMessage \/ Connect \/ \E byServer \in BOOLEAN : Disconnect(byServer)
      \/ UNCHANGED <<emitted, wire, connection>>
  BY DEF Next, vars, macVars, linkVars, LandContacts, ContactsFail, AskChats, MacServesChats,
         LandChats, ChatsFail, AskMessages, RouteAnswers, ChatRouteAnswers, HandleRouteAnswers, MessagesFail
<1> QED
  <2>1. emitted' = emitted \/ \E g \in Nat : emitted' = Append(emitted, g)
    <3>1. \A i \in DOMAIN emitted : emitted[i] \in Nat
      BY <1>1
    <3>2. HandleMessage \/ Connect \/ (\E byServer \in BOOLEAN : Disconnect(byServer))
            => emitted' = emitted
      BY DEF HandleMessage, Connect, Disconnect, macVars
    <3>3. Len(filed) + 1 \in Nat
      BY <1>1
    <3> QED BY <1>3, <1>4, <1>9, <3>1, <3>2, <3>3
  <2> QED BY <1>2, <1>3, <1>4, <1>5, <1>6, <1>7, <1>8, <1>9, <2>1

LEMMA StepCopies ==
  ASSUME ToldInvariant, [Next]_vars
  PROVE  CopiesAreClose'
<1>1. /\ emitted \in Seq(Nat) /\ ToSet(emitted) \subseteq DOMAIN filed /\ filed \in Seq(Messages)
      /\ SeenMax \in Nat \ {0} /\ CopiesAreClose
  BY SessionAssumptions DEF ToldInvariant, SessionTyped, TypeOK
<1>2. CASE emitted' = emitted
  BY <1>1, <1>2 DEF CopiesAreClose
<1>3. ASSUME NEW g \in Nat, emitted' = Append(emitted, g),
             \A p \in DOMAIN emitted : emitted[p] = g => Len(emitted) + 1 - p <= SeenMax
      PROVE  CopiesAreClose'
  <2>1. /\ DOMAIN emitted' = 1..(Len(emitted) + 1) /\ DOMAIN emitted = 1..Len(emitted)
        /\ Len(emitted) \in Nat /\ emitted'[Len(emitted) + 1] = g
        /\ \A k \in 1..Len(emitted) : emitted'[k] = emitted[k]
    BY <1>1, <1>3
  <2> SUFFICES ASSUME NEW p \in 1..(Len(emitted) + 1), NEW q \in 1..(Len(emitted) + 1),
                      emitted'[p] = emitted'[q]
               PROVE  q - p <= SeenMax
    BY <2>1 DEF CopiesAreClose
  <2>2. CASE p \in 1..Len(emitted) /\ q \in 1..Len(emitted)
    BY <1>1, <2>1, <2>2 DEF CopiesAreClose
  <2>3. CASE p \in 1..Len(emitted) /\ q = Len(emitted) + 1
    BY <1>3, <2>1, <2>3
  <2>4. CASE p = Len(emitted) + 1
    BY <1>1, <2>1, <2>4
  <2> QED BY <2>1, <2>2, <2>3, <2>4
<1>4. ASSUME NEW c \in Chats, NEW own \in BOOLEAN, MacMessage(c, own) PROVE CopiesAreClose'
  <2>1. emitted' = Append(emitted, Len(filed) + 1) /\ Len(filed) + 1 \in Nat
    BY <1>1, <1>4 DEF MacMessage, Push
  <2>2. \A p \in DOMAIN emitted : emitted[p] # Len(filed) + 1
    <3>1. \A p \in DOMAIN emitted : emitted[p] \in DOMAIN filed
      BY <1>1 DEF ToSet
    <3>2. Len(filed) + 1 \notin DOMAIN filed
      BY <1>1
    <3> QED BY <3>1, <3>2
  <2> QED BY <1>3, <2>1, <2>2
<1>5. ASSUME NEW i \in DOMAIN emitted, MacEchoes(i) PROVE CopiesAreClose'
  <2> DEFINE Copies == {k \in DOMAIN emitted : emitted[k] = emitted[i]}
  <2>1. /\ emitted' = Append(emitted, emitted[i]) /\ Cardinality(Copies) = 1
        /\ Len(emitted) - i < SeenMax /\ emitted[i] \in Nat
    BY <1>1, <1>5 DEF MacEchoes, Push
  <2>2. IsFiniteSet(Copies)
    <3>1. IsFiniteSet(1..Len(emitted)) /\ DOMAIN emitted = 1..Len(emitted)
      BY <1>1, FS_Interval
    <3> QED BY <3>1, FS_Subset
  <2>3. PICK x : Copies = {x}
    BY <2>1, <2>2, FS_Singleton
  <2>4. \A p \in DOMAIN emitted : emitted[p] = emitted[i] => p = i
    BY <2>3
  <2>5. Len(emitted) \in Nat /\ i \in Nat /\ Len(emitted) + 1 - i <= SeenMax
    BY <1>1, <2>1
  <2> QED BY <1>3, <2>1, <2>4, <2>5
<1> QED
  <2>1. \/ emitted' = emitted
        \/ \E c \in Chats, own \in BOOLEAN : MacMessage(c, own)
        \/ \E i \in DOMAIN emitted : MacEchoes(i)
    BY DEF Next, vars, macVars, linkVars, HandleMessage, Connect, Disconnect, LosePushes,
           LandContacts, ContactsFail, AskChats, MacServesChats, LandChats, ChatsFail,
           AskMessages, RouteAnswers, ChatRouteAnswers, HandleRouteAnswers, MessagesFail
  <2> QED BY <1>2, <1>4, <1>5, <2>1

(* A copy that comes while its guid is out of the window would be too far  *)
(* from the first one.                                                     *)
LEMMA SecondCopyIsKnown ==
  ASSUME ToldInvariant, wire # <<>>, Head(wire) \notin ToSet(heard), Head(wire) \in DOMAIN told
  PROVE  told[Head(wire)] = 0
<1> DEFINE g == Head(wire)
<1>1. /\ emitted \in Seq(Nat) /\ wire \in Seq(Nat) /\ heard \in Seq(Nat)
      /\ Len(wire) <= Len(emitted) /\ SeenMax \in Nat \ {0}
  BY SessionAssumptions DEF ToldInvariant, SessionTyped, WireIsTheLatest
<1>2. 1 \in DOMAIN wire /\ g = wire[1] /\ Len(wire) \in Nat \ {0} /\ Len(emitted) \in Nat
  BY <1>1
<1>3. g = emitted[Arrivals + 1] /\ Arrivals \in Nat /\ Arrivals + 1 \in DOMAIN emitted
  <2>1. Arrivals \in Nat /\ Arrivals + 1 \in DOMAIN emitted
    BY <1>1, <1>2 DEF Arrivals
  <2> QED BY <1>2, <2>1 DEF ToldInvariant, WireIsTheLatest
<1> SUFFICES ASSUME told[g] # 0 PROVE FALSE
  OBVIOUS
<1>4. PICK p \in 1..Arrivals : emitted[p] = g /\ Remembers(heard, g, p, Arrivals)
  BY DEF ToldInvariant, ToldIsRemembered
<1>5. \A k \in DOMAIN heard : heard[k] # g
  BY <1>1 DEF ToSet
<1>6. Arrivals - p >= SeenMax
  BY <1>4, <1>5 DEF Remembers
<1>7. p \in DOMAIN emitted
  BY <1>1, <1>3
<1>8. Arrivals + 1 - p <= SeenMax
  BY <1>3, <1>4, <1>7 DEF ToldInvariant, CopiesAreClose
<1> QED BY <1>1, <1>3, <1>6, <1>8

LEMMA StepTold ==
  ASSUME ToldInvariant, [Next]_vars
  PROVE  ToldIsRemembered'
<1>1. /\ emitted \in Seq(Nat) /\ wire \in Seq(Nat) /\ heard \in Seq(Nat) /\ SessionTyped
      /\ told \in [1..MaxFiled -> Nat] /\ Arrivals \in Nat /\ Arrivals' \in Nat
      /\ Arrivals <= Arrivals' /\ SessionTyped'
  BY StepWire, StepTyped DEF ToldInvariant, SessionTyped, TypeOK
<1>2. \A p \in DOMAIN emitted : emitted'[p] = emitted[p]
  <2>1. emitted' = emitted \/ \E g \in Nat : emitted' = Append(emitted, g)
    BY StepWire
  <2>2. ASSUME NEW g \in Nat PROVE \A p \in DOMAIN emitted : Append(emitted, g)[p] = emitted[p]
    BY <1>1
  <2> QED BY <2>1, <2>2
<1>3. 1..Arrivals \subseteq DOMAIN emitted /\ 1..Arrivals \subseteq 1..Arrivals'
  BY <1>1 DEF Arrivals
<1>4. CASE UNCHANGED <<heard, told>>
  <2> SUFFICES ASSUME NEW g \in DOMAIN told, told[g] # 0
               PROVE  /\ told[g] = 1
                      /\ \E p \in 1..Arrivals' : emitted'[p] = g /\ Remembers(heard, g, p, Arrivals')
    BY <1>4 DEF ToldIsRemembered
  <2>1. PICK p \in 1..Arrivals : emitted[p] = g /\ Remembers(heard, g, p, Arrivals)
    BY DEF ToldInvariant, ToldIsRemembered
  <2>2. told[g] = 1
    BY DEF ToldInvariant, ToldIsRemembered
  <2>3. Remembers(heard, g, p, Arrivals')
    BY <1>1, <2>1, RemembersLonger
  <2>4. p \in 1..Arrivals' /\ emitted'[p] = g
    BY <1>2, <1>3, <2>1
  <2> QED BY <2>2, <2>3, <2>4
<1>5. ASSUME HandleMessage, ~UNCHANGED <<heard, told>> PROVE ToldIsRemembered'
  <2> DEFINE new == Head(wire)
  <2>1. /\ wire # <<>> /\ new \notin ToSet(heard) /\ heard' = Remembered(new)
        /\ told' = [told EXCEPT ![new] = @ + 1] /\ wire' = Tail(wire) /\ emitted' = emitted
    BY <1>5 DEF HandleMessage, macVars
  <2>2. /\ new \in Nat /\ new = wire[1] /\ 1 \in DOMAIN wire
        /\ Len(wire') = Len(wire) - 1 /\ Len(wire) \in Nat \ {0} /\ Len(emitted) \in Nat
    BY <1>1, <2>1
  <2>3. Arrivals' = Arrivals + 1
    BY <2>1, <2>2 DEF Arrivals
  <2>4. emitted'[Arrivals'] = new /\ Arrivals' \in 1..Arrivals'
    <3>1. wire[1] = emitted[Arrivals + 1]
      BY <2>2 DEF ToldInvariant, WireIsTheLatest
    <3>2. Arrivals' \in 1..Arrivals'
      BY <1>1, <2>3
    <3> QED BY <2>1, <2>2, <2>3, <3>1, <3>2
  <2>5. new \in DOMAIN told => told'[new] = 1
    BY <1>1, <2>1, SecondCopyIsKnown
  <2> SUFFICES ASSUME NEW g \in DOMAIN told, told'[g] # 0
               PROVE  /\ told'[g] = 1
                      /\ \E p \in 1..Arrivals' : emitted'[p] = g /\ Remembers(heard', g, p, Arrivals')
    BY <2>1 DEF ToldIsRemembered
  <2>6. CASE g = new
    <3>1. Remembers(heard', new, Arrivals', Arrivals')
      BY <1>1, <2>1, <2>2, RemembersNew
    <3> QED BY <2>4, <2>5, <2>6, <3>1
  <2>7. CASE g # new
    <3>1. told'[g] = told[g]
      BY <1>1, <2>1, <2>7
    <3>2. PICK p \in 1..Arrivals : emitted[p] = g /\ Remembers(heard, g, p, Arrivals)
      BY <3>1 DEF ToldInvariant, ToldIsRemembered
    <3>3. told[g] = 1
      BY <3>1 DEF ToldInvariant, ToldIsRemembered
    <3>4. Remembers(heard', g, p, Arrivals')
      BY <1>1, <2>1, <2>2, <2>3, <3>2, RemembersAdded
    <3>5. p \in 1..Arrivals'
      BY <1>3
    <3> QED BY <2>1, <3>1, <3>2, <3>3, <3>4, <3>5
  <2> QED BY <2>6, <2>7
<1>6. UNCHANGED <<heard, told>> \/ HandleMessage
  BY DEF Next, vars, daemonVars, MacMessage, MacEchoes, Connect, Disconnect, LandContacts,
         ContactsFail, AskChats, MacServesChats, LandChats, ChatsFail, AskMessages,
         RouteAnswers, ChatRouteAnswers, HandleRouteAnswers, MessagesFail
<1> QED BY <1>4, <1>5, <1>6

(* While the two copies of one send come within the window of remembered   *)
(* guids of each other (MacEchoes' guard, and the code's own assumption), a*)
(* message is handed on once, for a window of any length and whatever is   *)
(* lost or comes in between (bluebubbles.js:76-79, 187-196).               *)
THEOREM MessagesAreToldOnce == Spec => []ToldOnce
<1>1. Init => ToldInvariant
  <2> SUFFICES ASSUME Init PROVE WireIsTheLatest /\ CopiesAreClose /\ ToldIsRemembered
    BY InitTyped DEF ToldInvariant
  <2>1. Len(wire) = 0 /\ DOMAIN wire = {} /\ Len(emitted) = 0 /\ DOMAIN emitted = {}
    BY DEF Init
  <2>2. \A g \in DOMAIN told : told[g] = 0
    BY DEF Init, Nobody
  <2> QED BY <2>1, <2>2 DEF Init, WireIsTheLatest, CopiesAreClose, ToldIsRemembered
<1>2. ToldInvariant /\ [Next]_vars => ToldInvariant'
  BY StepTyped, StepWire, StepCopies, StepTold DEF ToldInvariant
<1>3. ToldInvariant => ToldOnce
  <2> SUFFICES ASSUME ToldInvariant, NEW g \in 1..MaxFiled PROVE told[g] <= 1
    BY DEF ToldOnce
  <2>1. g \in DOMAIN told /\ told[g] \in Nat
    BY DEF ToldInvariant, SessionTyped, TypeOK
  <2> QED BY <2>1 DEF ToldInvariant, ToldIsRemembered
<1> QED BY <1>1, <1>2, <1>3, PTL DEF Spec
=============================================================================
