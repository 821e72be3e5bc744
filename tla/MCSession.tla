----------------------------- MODULE MCSession -----------------------------
(* An account of two chats with a third to come, and what is saved of the  *)
(* people in it.  A local number is three digits here.                     *)
EXTENDS Session

CONSTANTS a, b, o

Account == <<o, a>>

(* A number with its country code, another that ends like it, an address,  *)
(* and a shortcode whose digits end a saved number.                        *)
Participants == { <<"+", "1", "2", "3", "4">>, <<"9", "2", "3", "4">>,
                  <<"x", "@", "y">>, <<"3", "4">> }

Contact(name, phones, mails) ==
  [displayName |-> name, phoneNumbers |-> phones, emails |-> mails]

(* Two numbers that end alike, the farther one first; a contact without a  *)
(* name, a number that is all punctuation, and digits as an address.       *)
OneBook ==
  { << Contact("", <<<<"3", "4">>>>, <<>>),
       Contact("Ann", <<<<"8", "2", "3", "4">>>>, <<<<"x", "@", "y">>>>),
       Contact("Bea", <<<<"(", "2", ")", "3", "4">>, <<"5", "1", "2", "3", "4">>>>, <<>>),
       Contact("Cy", <<<<"-">>>>, <<<<"1", "2", "3", "4">>>>) >> }
=============================================================================
