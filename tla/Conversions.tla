---------------------------- MODULE Conversions ----------------------------
(***************************************************************************)
(* The conversions of kindlebt_utils.c that an application uses before it  *)
(* makes its calls: addresses from and to strings, bytes from hex digits,  *)
(* and the search for a characteristic in the database.                    *)
(*                                                                         *)
(* A string is a sequence of characters, of which there are a few. Lengths *)
(* are those of the code, a uint8_t included.                              *)
(***************************************************************************)
EXTENDS Naturals, Sequences, SequencesExt

Upper == <<"0", "1", "2", "3", "4", "5", "6", "7", "8", "9", "A", "B", "C", "D", "E", "F">>
Lower == SubSeq(Upper, 1, 10) \o <<"a", "b", "c", "d", "e", "f">>

IsHex(c) == c \in ToSet(Upper) \cup ToSet(Lower)

utilsConvertCharToHex(c) ==
  IF IsHex(c) THEN CHOOSE n \in 0 .. 15 : c \in {Upper[n + 1], Lower[n + 1]} ELSE 0

remove_all_chars(str, c) ==
  FoldLeft(LAMBDA kept, x : IF x = c THEN kept ELSE Append(kept, x), <<>>, str)

utilsConvertBdAddrToStr(addr) ==
  [i \in 1 .. 17 |->
     LET byte == addr[(i + 2) \div 3]
     IN CASE i % 3 = 1 -> Upper[(byte \div 16) + 1]
          [] i % 3 = 2 -> Upper[(byte % 16) + 1]
          [] OTHER -> ":"]

\* The length of the string is kept in a uint8_t.
HexLength(str) == Len(str) % 256

\* Broken: a last odd digit is dropped.
BytesHalved(str) == HexLength(str) \div 2

\* The bytes that are written: a last odd digit makes one of its own.
Bytes(str) == (HexLength(str) + 1) \div 2

utilsConvertHexStrToByteArray(str) ==
  [i \in 1 .. Bytes(str) |->
     16 * utilsConvertCharToHex(str[2 * i - 1])
       + (IF 2 * i <= HexLength(str) THEN utilsConvertCharToHex(str[2 * i]) ELSE 0)]

Colons == {3, 6, 9, 12, 15}

\* The string as the function leaves it to its caller: colons at the right
\* places, and then all, are removed before anything else is looked at.
Stripped(str) ==
  IF Len(str) = 17 /\ \A i \in Colons : str[i] = ":" THEN remove_all_chars(str, ":") ELSE str

\* Broken: takes the string for hex digits because it has their number.
AcceptedUnread(str) == Len(str) = 12

Accepted(str) == Len(str) = 12 /\ \A i \in 1 .. 12 : IsHex(str[i])

utilsConvertStrToBdAddr(str) ==
  LET left == Stripped(str)
  IN IF Len(str) \in {12, 17} /\ Accepted(left)
     THEN [status |-> "OK", str |-> left, addr |-> utilsConvertHexStrToByteArray(left)]
     ELSE [status |-> "BAD_PARAM", str |-> left]

NoRecord == <<>>

\* The UUID's first len bytes are compared, whatever its type.
SameUuid(u, v, len) == SubSeq(u, 1, len) = SubSeq(v, 1, len)

\* Broken: the search goes on in the next service, and finds a later one.
SearchOn(services, uuid, len, found, i) ==
  LET hits == {j \in 1 .. Len(services[i]) : SameUuid(services[i][j], uuid, len)}
  IN IF hits = {} THEN found ELSE <<i, CHOOSE j \in hits : \A k \in hits : j <= k>>

\* The service i, unless a characteristic was found in one before.
Search(services, uuid, len, found, i) ==
  LET hits == {j \in 1 .. Len(services[i]) : SameUuid(services[i][j], uuid, len)}
  IN IF found # NoRecord \/ hits = {} THEN found ELSE <<i, CHOOSE j \in hits : \A k \in hits : j <= k>>

\* The place of the characteristic: its service, and its number there.
utilsFindCharRec(services, uuid, len) ==
  FoldLeftDomain(LAMBDA found, i : Search(services, uuid, len, found, i), NoRecord, services)
----------------------------------------------------------------------------
(* One input for one of the functions *)

VARIABLE input

Addresses == {[i \in 1 .. 6 |-> IF i = k THEN b ELSE c] : k \in 1 .. 6, b \in 0 .. 255, c \in {0, 175}}

\* An address string with two of its characters changed, and cut or not.
AlmostAddresses ==
  LET s == utilsConvertBdAddrToStr(<<1, 35, 69, 103, 137, 171>>)
      changed == {[s EXCEPT ![i] = c, ![j] = d] : i \in 1 .. 17, j \in 1 .. 17, c \in {":", "g", "b"}, d \in {":", "g"}}
  IN changed \cup {remove_all_chars(t, ":") : t \in changed}
       \cup {SubSeq(s, 1, n) : n \in 0 .. 17} \cup {s \o <<"0">>}

Databases == LET service == {<<>>, <<<<1, 2>>>>, <<<<1, 3>>, <<1, 2>>>>, <<<<1, 2>>, <<1, 2>>>>}
             IN {<<>>} \cup {<<a>> : a \in service} \cup {<<a, b, c>> : a, b, c \in service}

\* Short strings of digits, and those around the ends of the uint8_t.
DigitStrings ==
  {[i \in 1 .. n |-> (step * i) % 16] : n \in 0 .. 20 \cup 250 .. 260 \cup 510 .. 514, step \in {1, 7, 15}}

NoInput == [of |-> "none"]

InitConversions ==
  \/ input \in [of : {"address"}, addr : Addresses]
  \/ input \in [of : {"string"}, str : AlmostAddresses]
  \/ input \in [of : {"digits"}, digits : DigitStrings, letters : {Upper, Lower}]
  \/ input \in [of : {"search"}, services : Databases, len : 1 .. 2]
----------------------------------------------------------------------------
(* What utilsConvertBdAddrToStr prints, utilsConvertStrToBdAddr reads, and *)
(* so it does once more from the string that it has taken the colons of.   *)
(* It reads nothing else than six bytes in either of the forms of its      *)
(* message: xx:xx:xx:xx:xx:xx or xxxxxxxxxxxx.                             *)
AddressesAndNothingElse ==
  /\ input.of = "address" =>
       LET first == utilsConvertStrToBdAddr(utilsConvertBdAddrToStr(input.addr))
       IN first.status = "OK" /\ first.addr = input.addr /\ utilsConvertStrToBdAddr(first.str) = first
  /\ input.of = "string" =>
       LET str == input.str
       IN utilsConvertStrToBdAddr(str).status = "OK" <=>
            \/ Len(str) = 12 /\ \A i \in 1 .. 12 : IsHex(str[i])
            \/ Len(str) = 17 /\ \A i \in 1 .. 17 : IF i \in Colons THEN str[i] = ":" ELSE IsHex(str[i])

\* The hex digits that bytes stand for.
DigitsOf(bytes) ==
  [k \in 1 .. 2 * Len(bytes) |->
     IF k % 2 = 1 THEN bytes[(k + 1) \div 2] \div 16 ELSE bytes[k \div 2] % 16]

(* utilsConvertHexStrToByteArray writes the digits that it is given, with  *)
(* a 0 after an odd number of them. From 256 digits on it writes fewer (the*)
(* length is a uint8_t), but never more than there is room for.            *)
BytesAreTheDigits ==
  input.of = "digits" =>
    LET digits == input.digits
        str == [i \in DOMAIN digits |-> input.letters[digits[i] + 1]]
        read == DigitsOf(utilsConvertHexStrToByteArray(str))
    IN /\ Len(read) <= Len(digits) + 1
       /\ Len(digits) < 256 => read = IF Len(digits) % 2 = 0 THEN digits ELSE Append(digits, 0)

(* utilsFindCharRec finds a characteristic with the UUID if there is one   *)
(* in any service, and then the first.                                     *)
FindsFirst ==
  input.of = "search" =>
    LET services == input.services
        found == utilsFindCharRec(services, <<1, 2>>, input.len)
        places == UNION {{<<i, j>> : j \in 1 .. Len(services[i])} : i \in 1 .. Len(services)}
        hits == {p \in places : SameUuid(services[p[1]][p[2]], <<1, 2>>, input.len)}
    IN IF hits = {} THEN found = NoRecord
       ELSE found \in hits /\ \A p \in hits : p[1] > found[1] \/ (p[1] = found[1] /\ p[2] >= found[2])
============================================================================
