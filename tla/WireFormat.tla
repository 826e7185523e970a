----------------------------- MODULE WireFormat -----------------------------
(***************************************************************************)
(* The datagrams of packet.c: construct_string writes a packet as fields   *)
(* that end with a semicolon, deconstruct_string cuts them apart again.    *)
(* Neither looks at what a payload holds.                                  *)
(*                                                                         *)
(* A character is a pair.  A decimal number is one character here, as is   *)
(* MAGIC_HDR: no semicolon is in either.  The buffer that a number is      *)
(* formatted in is taken to hold it, and the memory that a field is        *)
(* gathered in to be clear.                                                *)
(***************************************************************************)
EXTENDS Integers, FiniteSets, SequencesExt

SEP       == <<"semicolon", 0>>
NUL       == <<"nul", 0>>
MAGIC_HDR == <<"magic", 0>>

Number(n) == <<"number", n>>
Byte(b)   == <<"byte", b>>

\* The C string that starts a sequence of characters.
CString(chars) ==
  LET IsNul(c) == c = NUL
      end      == SelectInSeq(chars, IsNul)
  IN  IF end = 0 THEN chars ELSE SubSeq(chars, 1, end - 1)

(***************************************************************************)
(* strcat of a payload without a NUL goes on into payload_length, which    *)
(* comes next in the packet: length_bytes are the lower two of its bytes,  *)
(* the others are 0 and end the string.                                    *)
(***************************************************************************)
PayloadString(pckt) == CString(pckt.payload \o pckt.length_bytes)

\* Fault: the payload comes before the window's size.
construct_string_PayloadEarly(pckt) ==
  <<MAGIC_HDR, SEP, Number(pckt.type), SEP, Number(pckt.seqno), SEP,
    Number(pckt.ackno), SEP>>
  \o PayloadString(pckt) \o <<SEP, Number(pckt.winsize), SEP>>
  \o <<Number(pckt.payload_length), SEP>>

construct_string(pckt) ==
  <<MAGIC_HDR, SEP, Number(pckt.type), SEP, Number(pckt.seqno), SEP,
    Number(pckt.ackno), SEP, Number(pckt.winsize), SEP>>
  \o PayloadString(pckt) \o <<SEP, Number(pckt.payload_length), SEP>>

-----------------------------------------------------------------------------
\* Where the n-th semicolon is.
Cut(buffer, n) ==
  CHOOSE c \in DOMAIN buffer :
    buffer[c] = SEP /\ Cardinality({d \in 1 .. c : buffer[d] = SEP}) = n

\* Fault: cur_field is not started anew.
Field_Growing(buffer, n) ==
  SelectSeq(SubSeq(buffer, 1, Cut(buffer, n) - 1), LAMBDA c : c # SEP)

\* What is in buffer before its n-th semicolon, and after the one before.
Field(buffer, n) ==
  SubSeq(buffer, IF n = 1 THEN 1 ELSE Cut(buffer, n - 1) + 1, Cut(buffer, n) - 1)

\* atoi stops at the first character that is no digit.
atoi(field) ==
  IF field # <<>> /\ field[1][1] = "number" THEN field[1][2] ELSE 0

\* Seven fields are read: more semicolons end the loop.
deconstruct_string(buffer) ==
  [magic          |-> Field(buffer, 1),
   type           |-> atoi(Field(buffer, 2)),
   seqno          |-> atoi(Field(buffer, 3)),
   ackno          |-> atoi(Field(buffer, 4)),
   winsize        |-> atoi(Field(buffer, 5)),
   payload        |-> Field(buffer, 6),
   payload_length |-> atoi(Field(buffer, 7))]
=============================================================================
