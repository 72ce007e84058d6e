----------------------------- MODULE ByteStream -----------------------------
(***************************************************************************)
(* What read() of a socket promises a script that has one reader at a time *)
(* and does not read from inside close(): each answer is the next bytes of *)
(* the stream, as many as were asked for, or none.                         *)
(***************************************************************************)
EXTENDS Naturals, Sequences

CONSTANTS Streams, \* what the peer may send
          Delim    \* the delimiter scripts read to

VARIABLES rest,   \* sent by the peer, and given to no reader yet
          ask,    \* the read that waits; k = "none": no read
          misused \* the script has broken one of the two rules

Nothing == [k |-> "none", n |-> 0]

\* lengths of the prefixes of s that end with Delim
EndsWithDelim(s) ==
  {i \in Len(Delim) .. Len(s) : SubSeq(s, i + 1 - Len(Delim), i) = Delim}

Meets(w, i) ==
  \/ w.k = "any" /\ i \in 1 .. Len(rest)
  \/ w.k = "size" /\ i = w.n /\ i <= Len(rest)
  \/ w.k = "delim" /\ i \in EndsWithDelim(rest) /\ \A j \in EndsWithDelim(rest) : i <= j
  \/ w.k = "all" /\ i = Len(rest)

Init == rest \in Streams /\ ask = Nothing /\ misused = FALSE

Ask == ask = Nothing /\ ask' # Nothing /\ UNCHANGED <<rest, misused>>

\* i = 0: NULL or an exception
Answer ==
  /\ ask # Nothing /\ ask' = Nothing
  /\ \E i \in 0 .. Len(rest) :
       (i = 0 \/ Meets(ask, i)) /\ rest' = SubSeq(rest, i + 1, Len(rest))
  /\ UNCHANGED misused

Misuse == misused'

Spec == Init /\ [][Ask \/ Answer \/ Misuse]_<<rest, ask, misused>>
=============================================================================
