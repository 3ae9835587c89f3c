-------------------------------- MODULE Keys -------------------------------
(***************************************************************************)
(* What the counter derives from the name of a key: the prefixes it is     *)
(* tallied under (countByKeyPrefix and getPrefixes in server/counter.go)   *)
(* and its cluster slot (Slot in server/utils.go), for any hash crc16;     *)
(* CrcTable gives the one of the code.                                     *)
(*                                                                         *)
(* The model builds every key over an alphabet, byte by byte, and states   *)
(* what the two functions return for it.  Keys are sequences of bytes, and *)
(* need not be text: a Redis key is any string of bytes.                   *)
(***************************************************************************)
EXTENDS Naturals, Sequences, FiniteSetsExt, SequencesExt

CONSTANTS Alphabet,   \* the bytes keys are made of
          MaxLen,     \* bound on the length of a key
          crc16(_)    \* the hash

ASSUME KeysAssumptions == Alphabet \subseteq 0 .. 255 /\ MaxLen \in Nat

VARIABLE key

\* ":;,_- "
separators == {58, 59, 44, 95, 45, 32}

Digits == 48 .. 57
Star  == 42
Open  == 123    \* {
Close == 125    \* }

----------------------------------------------------------------------------
(* Prefixes.                                                               *)

\* UTF-8: how many bytes a character has that begins with b; 0 if none does.
Width(b) == CASE b < 128           -> 1
              [] b \in 194 .. 223 -> 2
              [] b \in 224 .. 239 -> 3
              [] b \in 240 .. 244 -> 4
              [] OTHER             -> 0

\* The bytes that can come second, after b; any later one is in 128 .. 191.
Second(b) == CASE b = 224 -> 160 .. 191
               [] b = 237 -> 128 .. 159
               [] b = 240 -> 144 .. 191
               [] b = 244 -> 128 .. 143
               [] OTHER   -> 128 .. 191

\* A character begins at position i.
StartsRune(s, i) ==
    /\ Width(s[i]) > 0 /\ i + Width(s[i]) - 1 <= Len(s)
    /\ \A d \in 1 .. Width(s[i]) - 1 : s[i + d] \in IF d = 1 THEN Second(s[i]) ELSE 128 .. 191

\* Position i is part of a character.
InRune(s, i) == \E j \in 1 .. i : StartsRune(s, j) /\ i < j + Width(s[j])

\* U+FFFD, which a loop over the characters of a string yields for each byte
\* that is part of none.
Replacement == <<239, 191, 189>>

MaskByte(s, i) ==
    IF s[i] \in Digits THEN <<Star>> ELSE IF InRune(s, i) THEN <<s[i]>> ELSE Replacement

MaskBytes(s) == [i \in 1 .. Len(s) |-> IF s[i] \in Digits THEN Star ELSE s[i]]

\* strings.Map goes by characters: every digit becomes a star, what is no
\* character is replaced, and all else is kept.
Mask(s) == FlattenSeq([i \in 1 .. Len(s) |-> MaskByte(s, i)])

TrimOnce(s) == IF s # <<>> /\ Last(s) \in separators THEN Front(s) ELSE s

\* The loop over hasAnySuffix: all separators at the end go.
Trim(s) == SubSeq(s, 1, Max({0} \cup {i \in 1 .. Len(s) : s[i] \notin separators}))

Cuts(s) == {i \in 1 .. Len(s) : s[i] \in separators}

\* The key up to each separator, trimmed, without duplicates; a key without
\* separators is its own prefix.
getPrefixes(s) ==
    IF Cuts(s) = {} THEN {s} ELSE {Trim(SubSeq(s, 1, i)) : i \in Cuts(s)}

\* What countByKeyPrefix tallies the key under.
Names(k) == getPrefixes(Mask(k)) \ {<<>>}

----------------------------------------------------------------------------
(* Slots.                                                                  *)

\* strings.Index from position i on; 0 when there is none.
IndexFrom(s, b, i) ==
    LET at == {n \in i .. Len(s) : s[n] = b} IN IF at = {} THEN 0 ELSE Min(at)

\* The part of the key that is hashed.
HashedFromBrace(k) ==
    LET start == IndexFrom(k, Open, 1)
        end   == IndexFrom(k, Close, start + 1)
    IN  IF start = 0 \/ end = 0 THEN k ELSE SubSeq(k, start, end - 1)

Hashed(k) ==
    LET start == IndexFrom(k, Open, 1)
        end   == IndexFrom(k, Close, start + 1)
    IN  IF start = 0 \/ end = 0 THEN k ELSE SubSeq(k, start + 1, end - 1)

Slot(k) == crc16(Hashed(k)) % 16384

----------------------------------------------------------------------------
Init == key = <<>>

\* Keys of any shape occur in a dump.
Extend(b) == Len(key) < MaxLen /\ key' = Append(key, b)

Longest == Len(key) = MaxLen /\ UNCHANGED key

Next == Longest \/ \E b \in Alphabet : Extend(b)

Spec == Init /\ [][Next]_key

----------------------------------------------------------------------------
(* Properties.                                                             *)

(* The reference for prefixes: the masked key is cut wherever a separator  *)
(* follows something else; a run of separators cuts once, and what follows *)
(* the last separator is no prefix.  So the prefixes form a tree, and keys *)
(* that differ only in digits share all of them.                           *)
NamesAreTheCuts ==
    LET m == Mask(key) IN
    Names(key) = IF \A i \in 1 .. Len(m) : m[i] \notin separators
                 THEN {m} \ {<<>>}
                 ELSE {SubSeq(m, 1, i) : i \in {n \in 1 .. Len(m) - 1 :
                          m[n] \notin separators /\ m[n + 1] \in separators}}

(* Whatever bytes a key has, its prefixes are text.  encoding/json writes  *)
(* only text as it is: a prefix that is none would have another name in    *)
(* the row than in memory, and two prefixes could get the same one.  The   *)
(* replacement in strings.Map, and that no cut separates the bytes of a    *)
(* character, keep the row true to the counter.                            *)
NamesAreText == \A p \in Names(key) : \A i \in 1 .. Len(p) : InRune(p, i)

\* The tag of a key is what is between the first opening brace and the first
\* closing brace after it.
IsTag(k, i, j) ==
    /\ i \in DOMAIN k /\ j \in DOMAIN k
    /\ i < j /\ k[i] = Open /\ k[j] = Close
    /\ \A n \in 1 .. i - 1 : k[n] # Open
    /\ \A n \in i + 1 .. j - 1 : k[n] # Close

(* "keys like user:{123}:profile will hash only 123": a key with a tag     *)
(* that is not empty is in the slot of its tag, and a key without a tag is *)
(* hashed whole.  SlotIsClusterSlot has the keys with an empty tag.        *)
TagDecidesSlot ==
    /\ \A i, j \in DOMAIN key :
         IsTag(key, i, j) /\ i + 1 < j => Slot(key) = crc16(SubSeq(key, i + 1, j - 1)) % 16384
    /\ (~ \E i, j \in DOMAIN key : IsTag(key, i, j)) => Slot(key) = crc16(key) % 16384

(* "Slot calculates the Redis Cluster slot for a given key" (utils.go:6).  *)
(* Redis Cluster takes an empty tag for no tag and hashes such a key whole *)
(* as well; Slot hashes nothing, so all keys with {} are in slot 0.        *)
SlotIsClusterSlot ==
    (~ \E i, j \in DOMAIN key : IsTag(key, i, j) /\ i + 1 < j) => Slot(key) = crc16(key) % 16384
=============================================================================
