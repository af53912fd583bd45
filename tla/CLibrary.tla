------------------------------ MODULE CLibrary ------------------------------
(***************************************************************************)
(* The C library, common/src/string.c and common/src/stdlib.c, as          *)
(* operators, and what the C standard says of it.  A memory m is a         *)
(* function from addresses to bytes; a string is the address of its first  *)
(* character and lies in m with the zero that ends it.                     *)
(***************************************************************************)
EXTENDS Integers, Sequences, SequencesExt, FiniteSetsExt

NULL == -1

Char(b) == IF b > 127 THEN b - 256 ELSE b   \* char is signed

(* memset stores bytes until both the address and the count are multiples  *)
(* of 8, which may never be, and words of 8 bytes from there.              *)
Memset(m, s, c, n) ==
  LET bytes == Min({k \in 0 .. n : k = n \/ ((s + k) % 8 = 0 /\ (n - k) % 8 = 0)})
      words == (n - bytes + 7) \div 8
  IN  [a \in DOMAIN m |-> IF a \in s .. s + bytes + 8 * words - 1 THEN c % 256 ELSE m[a]]

Copy(m, d, s, order) ==
  FoldLeft(LAMBDA mem, i : [mem EXCEPT ![d + i] = mem[s + i]], m, order)

Up(n) == [i \in 1 .. n |-> i - 1]

Memcpy(m, d, s, n) == Copy(m, d, s, Up(n))

(* Mutant of Memmove: the directions are exchanged.                        *)
Memmove_Swapped(m, d, s, n) == Copy(m, d, s, IF s > d THEN Reverse(Up(n)) ELSE Up(n))

Memmove(m, d, s, n) == Copy(m, d, s, IF s < d THEN Reverse(Up(n)) ELSE Up(n))

(* How far into the blocks the first difference is, among the first n bytes.  *)
Differ(m, s1, s2, n) ==
  {i \in 0 .. n - 1 : {s1 + i, s2 + i} \subseteq DOMAIN m /\ m[s1 + i] # m[s2 + i]}

(* The count is first looked at after a byte: from 0 it wraps.             *)
Memcmp(m, s1, s2, n) ==
  LET found == Differ(m, s1, s2, IF n = 0 THEN Cardinality(DOMAIN m) ELSE n)
  IN  IF found = {} THEN 0 ELSE m[s1 + Min(found)] - m[s2 + Min(found)]

Strlen(m, s) == IF s = NULL THEN 0 ELSE Min({a \in DOMAIN m : a >= s /\ m[a] = 0}) - s

Strnlen(m, s, n) == Min({n, Strlen(m, s)})

(* It does not stop at the end of the strings.                             *)
Strncmp(m, s1, s2, n) ==
  LET found == Differ(m, s1, s2, n)
  IN  IF found = {} THEN 0 ELSE m[s1 + Min(found)] - m[s2 + Min(found)]

Strcmp(m, s1, s2) ==
  LET found == Differ(m, s1, s2, Strlen(m, s1) + 1)
  IN  IF found = {} THEN 0 ELSE Char(m[s1 + Min(found)]) - Char(m[s2 + Min(found)])

(* No zero is written, neither after the string nor up to n.               *)
Strncpy(m, d, s, n) == Copy(m, d, s, Up(Strnlen(m, s, n)))

Strncat(m, d, s, n) ==
  LET end == d + Strlen(m, d)
      k   == Strnlen(m, s, n)
  IN  [Copy(m, end, s, Up(k)) EXCEPT ![end + k] = 0]

Strchr(m, s, c) ==
  LET k == Min({i \in 0 .. Strlen(m, s) : m[s + i] \in {c, 0}})
  IN  IF s = NULL \/ m[s + k] # c THEN NULL ELSE s + k

(* The first character is skipped.                                         *)
Strrchr(m, s, c) ==
  LET found == {i \in 1 .. Strlen(m, s) - 1 : m[s + i] = c}
  IN  IF s = NULL \/ found = {} THEN NULL ELSE s + Max(found)

Strstr(m, h, s) ==
  LET len == Strlen(m, s)
      end == h + Strlen(m, h)
      search[p \in h .. end] ==
        IF p = end THEN NULL
        ELSE IF m[p] # m[s] THEN search[p + 1]
        ELSE IF end - p < len THEN NULL
        ELSE IF Strncmp(m, p, s, len) = 0 THEN p
        ELSE search[p + 1]
  IN  IF s = NULL \/ h = NULL THEN NULL ELSE IF m[s] = 0 THEN h ELSE search[h]

Digit(v) == IF v <= 9 THEN 48 + v ELSE IF v <= 35 THEN 97 + v - 10 ELSE 0

(* itoa and ltoa, for integers of w bits: the digits come out backwards.   *)
Itoa(val, base, w) ==
  LET minus == val < 0 /\ base = 10
      up[t \in Nat] == IF t = 0 THEN <<>> ELSE <<Digit(t % base)>> \o up[t \div base]
      digits == up[(IF minus THEN -val ELSE val) % 2^w]
  IN  IF val = 0 THEN <<48>> ELSE Reverse(IF minus THEN Append(digits, 45) ELSE digits)

Hex(c) ==
  CASE c \in 48 .. 57  -> c - 48
    [] c \in 97 .. 102 -> c - 97 + 10
    [] c \in 65 .. 70  -> c - 65 + 10
    [] OTHER -> NULL

(* atoi shifts the value up after every digit, and once down at the end.   *)
Atoi(s, base, w) ==
  LET count == CHOOSE k \in 0 .. Len(s) : /\ \A i \in 1 .. k : Hex(s[i]) # NULL
                                          /\ k < Len(s) => Hex(s[k + 1]) = NULL
      wrap(v) == ((v + 2^(w - 1)) % 2^w) - 2^(w - 1)
      val == FoldLeft(LAMBDA v, c : wrap(16 * (v + Hex(c))), 0, SubSeq(s, 1, count))
  IN  IF base # 16 THEN -1 ELSE val \div 16

-----------------------------------------------------------------------------
Sign(v) == IF v < 0 THEN -1 ELSE IF v > 0 THEN 1 ELSE 0

StringAt(m, s) == [i \in 1 .. Strlen(m, s) |-> m[s + i - 1]]

Lexicographic(s, t) ==
  LET k == Len(LongestCommonPrefix({s, t}))
      at(u) == IF k < Len(u) THEN u[k + 1] ELSE 0
  IN  Sign(at(s) - at(t))

Write(m, d, s) == [a \in DOMAIN m |-> IF a \in d .. d + Len(s) - 1 THEN s[a - d + 1] ELSE m[a]]

Bytes(m, s, n) == [i \in 1 .. n |-> m[s + i - 1]]

MemoryRight(m) ==
  \A s \in DOMAIN m : \A n \in {k \in 0 .. Cardinality(DOMAIN m) : s + k - 1 \in DOMAIN m \/ k = 0} :
    /\ Memset(m, s, 259, n) = Write(m, s, [i \in 1 .. n |-> 3])
    /\ \A d \in {a \in DOMAIN m : a + n - 1 \in DOMAIN m} :
         /\ Memmove(m, d, s, n) = Write(m, d, Bytes(m, s, n))
         /\ d + n <= s \/ s + n <= d => Memcpy(m, d, s, n) = Write(m, d, Bytes(m, s, n))
         /\ n > 0 => Sign(Memcmp(m, s, d, n)) = Lexicographic(Bytes(m, s, n), Bytes(m, d, n))

(* strncmp must not be asked beyond the end of equal strings, strncpy must *)
(* find zeros where it writes, and strrchr may only be asked for a         *)
(* character that is not zero and not only the first.                      *)
StringsRight(m) ==
  \A s, d \in DOMAIN m :
    LET S == StringAt(m, s)
        D == StringAt(m, d)
        room == Cardinality({a \in DOMAIN m : a > d + Len(D)})
    IN
    /\ Sign(Strcmp(m, s, d)) = Lexicographic(S, D)
    /\ LET hits == {p \in s .. s + Len(S) : IsPrefix(D, StringAt(m, p))}
       IN  Strstr(m, s, d) = IF hits = {} THEN NULL ELSE Min(hits)
    /\ \A n \in 0 .. Len(S) + 2 :
         /\ (S = D => n <= Len(S) + 1) =>
              Sign(Strncmp(m, s, d, n)) =
                Lexicographic(SubSeq(S, 1, Min({n, Len(S)})), SubSeq(D, 1, Min({n, Len(D)})))
         /\ Strnlen(m, s, n) = Min({n, Len(S)})
         /\ Min({n, Len(S)}) <= room /\ (s > d + Len(D) + Min({n, Len(S)}) \/ s + Len(S) < d) =>
              Strncat(m, d, s, n) = Write(m, d, D \o SubSeq(S, 1, Min({n, Len(S)})) \o <<0>>)
         /\ LET zeros == [i \in 1 .. n |-> 0]
                m0    == Write(m, d, zeros)
            IN  d + n - 1 \in DOMAIN m /\ (s >= d + n \/ s + Len(S) < d) =>
                  Strncpy(m0, d, s, n) =
                    Write(m0, d, SubSeq(S \o zeros, 1, n))
    /\ \A c \in 0 .. 2 :
         LET hits == {p \in s .. s + Len(S) : m[p] = c}
         IN  /\ Strchr(m, s, c) = IF hits = {} THEN NULL ELSE Min(hits)
             /\ c # 0 /\ hits # {s} => Strrchr(m, s, c) = IF hits = {} THEN NULL ELSE Max(hits)

(* What the digits s stand for.                                            *)
Value(s, base) ==
  FoldLeft(LAMBDA v, c : v * base + (IF c <= 57 THEN c - 48 ELSE c - 87), 0, s)

(* Every base of up to 36 is read back, negative numbers being signed in   *)
(* base 10 only; atoi has room for all but the top five bits.              *)
NumbersRight(v, w) ==
  /\ \A base \in 2 .. 36 :
       LET s == Itoa(v, base, w)
       IN  /\ IF v < 0 /\ base = 10 THEN Head(s) = 45 /\ Value(Tail(s), base) = -v
                                    ELSE Value(s, base) = v % 2^w
           /\ v # 0 => s[1] # 48
  /\ v \in 0 .. 2^(w - 5) - 1 => Atoi(Append(Itoa(v, 16, w), 0), 16, w) = v

=============================================================================
