------------------------------ MODULE Contacts ------------------------------
(***************************************************************************)
(* Who an address belongs to: ContactIndex of daemon/lib/contacts.js.      *)
(* An address is a sequence of characters, as Contacts.app stores it or    *)
(* as the Mac reports a handle; a contact without a name has name NoName,  *)
(* which is also what an unresolved address gets.                          *)
(***************************************************************************)
EXTENDS Integers, SequencesExt

CONSTANTS
  Alnum,     \* the letters and digits; every other character is stripped
  At,        \* "@"
  NoName,    \* ""
  MinFuzzy   \* MIN_FUZZY_DIGITS

ASSUME ContactsAssumptions == At \notin Alnum /\ MinFuzzy \in Nat \ {0}

Entries == [kind : {"phone", "email"}, normalized : Seq(Alnum), displayName : STRING]

Normalize(address) == SelectSeq(address, LAMBDA char : char \in Alnum)

Kind(address) == IF At \in ToSet(address) THEN "email" ELSE "phone"

EntriesAt(kind, addresses, name) ==
  LET normalized == SelectSeq([i \in DOMAIN addresses |-> Normalize(addresses[i])],
                              LAMBDA address : address # <<>>)
  IN [i \in DOMAIN normalized |->
        [kind |-> kind, normalized |-> normalized[i], displayName |-> name]]

EntriesOf(contact) ==
  IF contact.displayName = NoName
    THEN <<>>
    ELSE EntriesAt("phone", contact.phoneNumbers, contact.displayName)
           \o EntriesAt("email", contact.emails, contact.displayName)

FromContacts(contacts) ==
  FlattenSeq([i \in DOMAIN contacts |-> EntriesOf(contacts[i])])

EndsWith(s, t) == Len(t) <= Len(s) /\ SubSeq(s, Len(s) - Len(t) + 1, Len(s)) = t

Ending(addr, n) == SubSeq(addr, Len(addr) - n + 1, Len(addr))

Exact(index, kind, addr) ==
  {i \in DOMAIN index : index[i].kind = kind /\ index[i].normalized = addr}

Sharing(index, addr, n) ==
  {i \in DOMAIN index : /\ index[i].kind = "phone"
                        /\ EndsWith(index[i].normalized, Ending(addr, n))}

(* The loop over lengths skips those under MIN_FUZZY_DIGITS. *)
FuzzyLengths_Short(index, addr) ==   \* mutant: a shortcode is matched too
  {n \in 1..Len(addr) : n >= Len(addr) - 3 /\ Sharing(index, addr, n) # {}}

FuzzyLengths(index, addr) ==
  {n \in MinFuzzy..Len(addr) : n >= Len(addr) - 3 /\ Sharing(index, addr, n) # {}}

(* `find`: the first of several. *)
FirstName(index, hits) ==
  index[CHOOSE i \in hits : \A j \in hits : i <= j].displayName

Longest(lengths) == CHOOSE n \in lengths : \A k \in lengths : k <= n

Resolve(index, address) ==
  LET addr    == Normalize(address)
      exact   == Exact(index, Kind(address), addr)
      lengths == FuzzyLengths(index, addr)
  IN CASE addr = <<>> -> NoName
       [] addr # <<>> /\ exact # {} -> FirstName(index, exact)
       [] addr # <<>> /\ exact = {} ->
            IF Kind(address) = "email" \/ lengths = {}
              THEN NoName
              ELSE FirstName(index, Sharing(index, addr, Longest(lengths)))

-----------------------------------------------------------------------------
(* What a name is given on the strength of: an entry of the address's kind *)
(* that is the address, or else a number with the longest ending any saved *)
(* number shares with it, no shorter than a local number and short of it   *)
(* by no more than a country code ("Emails and shortcodes resolve only on  *)
(* exact match", contacts.js:11-18).                                       *)
IsGround(index, address, i) ==
  LET addr == Normalize(address) IN
    \/ index[i].kind = Kind(address) /\ index[i].normalized = addr
    \/ /\ Kind(address) = "phone" /\ index[i].kind = "phone"
       /\ Exact(index, "phone", addr) = {}
       /\ \E n \in MinFuzzy..Len(addr) :
            /\ n + 3 >= Len(addr)
            /\ EndsWith(index[i].normalized, Ending(addr, n))
            /\ \A k \in (n + 1)..Len(addr) : Sharing(index, addr, k) = {}

Grounds(index, address) ==
  IF Normalize(address) = <<>> THEN {} ELSE {i \in DOMAIN index : IsGround(index, address, i)}

(* The name is that of the first entry there are grounds for, and there is *)
(* a name exactly if there are grounds.                                    *)
NamedOnGrounds(index, address) ==
  LET grounds == Grounds(index, address)
  IN Resolve(index, address) =
       IF grounds = {}
         THEN NoName
         ELSE index[CHOOSE i \in grounds : \A j \in grounds : i <= j].displayName
=============================================================================
