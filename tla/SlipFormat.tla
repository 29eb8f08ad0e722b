----------------------------- MODULE SlipFormat -----------------------------
(***************************************************************************)
(* stream.h: packets between delimiters, over bytes End, Esc, their two    *)
(* replacements, and any other value.                                      *)
(***************************************************************************)
EXTENDS Integers, Sequences, SequencesExt

CONSTANTS End, Esc, EndReplace, EscReplace    \* SLIP_END ...

ASSUME CodesAssumption ==
  {End, Esc, EndReplace, EscReplace} \subseteq Int /\ End # Esc /\ EndReplace # EscReplace

(* Faulty: an End only behind the packet.                                  *)
EncodeSingleEnded(payload) ==
  LET stuffed(b) == IF b = End THEN <<Esc, EndReplace>>
                    ELSE IF b = Esc THEN <<Esc, EscReplace>>
                    ELSE <<b>>
  IN  FlattenSeq([i \in DOMAIN payload |-> stuffed(payload[i])]) \o <<End>>

(* lv2_osc_slip_encode_inline *)
Encode(payload) ==
  LET stuffed(b) == IF b = End THEN <<Esc, EndReplace>>
                    ELSE IF b = Esc THEN <<Esc, EscReplace>>
                    ELSE <<b>>
  IN  IF payload = << >> THEN << >>
      ELSE <<End>> \o FlattenSeq([i \in DOMAIN payload |-> stuffed(payload[i])]) \o <<End>>

(* lv2_osc_slip_decode_inline: how many bytes it parsed, what it wrote,    *)
(* and whether *size is the length of that or 0.                           *)
Decode(buf) ==
  LET whole == buf # << >> /\ buf[1] = End
      start == IF whole THEN 2 ELSE 1
      escaped[i \in 0..Len(buf)] ==
        i > start /\ buf[i - 1] = Esc /\ ~escaped[i - 1]
      ends == {i \in start..Len(buf) : buf[i] = End /\ ~escaped[i]}
      stop == IF ends = {} THEN Len(buf) + 1 ELSE CHOOSE i \in ends : \A j \in ends : i <= j
      written(i) == IF ~escaped[i] THEN (IF buf[i] = Esc THEN << >> ELSE <<buf[i]>>)
                    ELSE IF buf[i] = EndReplace THEN <<End>>
                    ELSE IF buf[i] = EscReplace THEN <<Esc>>
                    ELSE << >>
  IN  [parsed |-> IF ends = {} THEN 0 ELSE stop,
       out |-> FlattenSeq([k \in 1..(stop - start) |-> written(start + k - 1)]),
       valid |-> whole /\ ends # {}]

From(s, i) == SubSeq(s, i, Len(s))
=============================================================================
