-------------------------------- MODULE Text --------------------------------
(***************************************************************************)
(* Bytes on the socket and in letters, as sequences of pieces: words no    *)
(* property looks into, and the pieces the code treats in a special way.   *)
(* A line end is one piece, whether it is CRLF or LF: normalize_crlf and   *)
(* the trimming of CR make them one before they matter.                    *)
(***************************************************************************)
EXTENDS Integers, SequencesExt

NL == "nl"           \* a line end
SP == "sp"           \* a blank or tab
Long == "long"       \* an ASCII word longer than 998 bytes
Wide == "wide"       \* a word with bytes above 127
Huge == "huge"       \* a word longer than MAX_HEADER_LINE

(* str::trim and its like: s without its edges that are in E.              *)
Trim(s, E) ==
  LET In == {i \in DOMAIN s : s[i] \notin E}
  IN IF In = {} THEN <<>> ELSE SubSeq(s, Min(In), Max(In))
TrimEnd(s, E) == SubSeq(s, 1, SelectLastInSeq(s, LAMBDA p : p \notin E))

(* find_subslice: where t first occurs in s, or 0.                         *)
FindIn(s, t) ==
  LET At == {i \in 1..(Len(s) - Len(t) + 1) : SubSeq(s, i, i + Len(t) - 1) = t}
  IN IF At = {} THEN 0 ELSE Min(At)

(* s from position i on.                                                   *)
From(s, i) == SubSeq(s, i, Len(s))

(* f[p] in place of every piece p of s, all of it flattened.               *)
Substituted(s, f(_)) == FlattenSeq([i \in DOMAIN s |-> f(s[i])])

EndOfLine(s, i) == Min({Len(s) + 1} \cup {j \in i..Len(s) : s[j] = NL})
LineStarts(s) == {i \in DOMAIN s : i = 1 \/ s[i - 1] = NL}

(* The value of the first line of a block that starts with n, or Absent.   *)
Absent == <<"(absent)">>
HeaderValue(block, n) ==
  LET At == {i \in LineStarts(block) : block[i] = n}
  IN IF At = {} THEN Absent
     ELSE Trim(SubSeq(block, Min(At) + 1, EndOfLine(block, Min(At)) - 1), {SP})
=============================================================================
