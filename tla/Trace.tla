--------------------------------- MODULE Trace ---------------------------------
(***************************************************************************)
(* One verbose step of the interpreter: with C8_FLAG_VERBOSE set,           *)
(* c8_parse_instruction prints c8_decode_instruction(in) and then executes  *)
(* in.  The two read different tables: the switch statements of             *)
(* instruction.c (module Isa) and the c8_formats array of symbol.c, which   *)
(* is also what the disassembler and the assembler use.  This module        *)
(* compares them on every word and in every mode.                           *)
(***************************************************************************)
EXTENDS Isa, SequencesExt

VARIABLES word,     \* the word fetched, a tuple of four nibbles
          mode,     \* c8->mode
          printed,  \* what the trace calls the word, "none" before the fetch
          done      \* what executing it came to, "none" before the fetch

vars == <<word, mode, printed, done>>

Words == Nibble \X Nibble \X Nibble \X Nibble

\* A nibble of a format that a parameter mask covers.
P == 16

\* c8_formats in its order, each row as its base nibbles with the masked ones
\* replaced by P.  A row with the base and mask of an earlier one (the "For
\* encoding" rows that only drop Vy or name V0) is left out: it never matches.
Formats == <<
  <<"scd_b", 0, 0, 12, P>>, <<"cls", 0, 0, 14, 0>>, <<"ret", 0, 0, 14, 14>>,
  <<"scr", 0, 0, 15, 11>>, <<"scl", 0, 0, 15, 12>>, <<"exit", 0, 0, 15, 13>>,
  <<"low", 0, 0, 15, 14>>, <<"high", 0, 0, 15, 15>>,
  <<"jp_nnn", 1, P, P, P>>, <<"call_nnn", 2, P, P, P>>,
  <<"se_vx_kk", 3, P, P, P>>, <<"sne_vx_kk", 4, P, P, P>>,
  <<"se_vx_vy", 5, P, P, 0>>, <<"ld_vx_kk", 6, P, P, P>>,
  <<"add_vx_kk", 7, P, P, P>>, <<"ld_vx_vy", 8, P, P, 0>>,
  <<"or_vx_vy", 8, P, P, 1>>, <<"and_vx_vy", 8, P, P, 2>>,
  <<"xor_vx_vy", 8, P, P, 3>>, <<"add_vx_vy", 8, P, P, 4>>,
  <<"sub_vx_vy", 8, P, P, 5>>, <<"shr_vx_vy", 8, P, P, 6>>,
  <<"subn_vx_vy", 8, P, P, 7>>, <<"shl_vx_vy", 8, P, P, 14>>,
  <<"sne_vx_vy", 9, P, P, 0>>, <<"ld_i_nnn", 10, P, P, P>>,
  <<"jp_v0_nnn", 11, P, P, P>>, <<"rnd_vx_kk", 12, P, P, P>>,
  <<"drw_vx_vy_b", 13, P, P, P>>, <<"skp_vx", 14, P, 9, 14>>,
  <<"sknp_vx", 14, P, 10, 1>>, <<"ld_vx_dt", 15, P, 0, 7>>,
  <<"ld_vx_k", 15, P, 0, 10>>, <<"ld_dt_vx", 15, P, 1, 5>>,
  <<"ld_st_vx", 15, P, 1, 8>>, <<"add_i_vx", 15, P, 1, 14>>,
  <<"ld_f_vx", 15, P, 2, 9>>, <<"ld_hf_vx", 15, P, 3, 0>>,
  <<"ld_b_vx", 15, P, 3, 3>>, <<"ld_ip_vx", 15, P, 5, 5>>,
  <<"ld_vx_ip", 15, P, 6, 5>>, <<"ld_r_vx", 15, P, 7, 5>>,
  <<"ld_vx_r", 15, P, 8, 5>> >>

Matches(f, w) == \A k \in 1..4 : f[k + 1] \in {P, w[k]}

\* c8_decode_instruction: the first format that matches, else a data word.
Disassemble(w) ==
  LET i == SelectInSeq(Formats, LAMBDA f : Matches(f, w))
  IN  IF i = 0 THEN ".DW" ELSE Formats[i][1]

\* c8_parse_instruction: what running w in mode m comes to, the function that
\* ran or the exception returned.
Execute(w, m) ==
  LET i == Decode(w[1], w[2], w[3], w[4])
  IN  CASE i = Invalid                       -> "syntax"
        [] i # Invalid /\ ~Permitted(i, m) -> "invalid_state"
        [] OTHER                           -> i

Init == /\ word \in Words
        /\ mode \in Modes
        /\ printed = "none"
        /\ done = "none"

Step == /\ done = "none"
        /\ printed' = Disassemble(word)
        /\ done' = Execute(word, mode)
        /\ UNCHANGED <<word, mode>>

Spec == Init /\ [][Step]_vars

--------------------------------------------------------------------------------
Executed == done \notin {"none", "syntax", "invalid_state"}

\* When the trace prints an instruction and the interpreter executes one,
\* they are the same one: the two tables never disagree on a word.
TraceNamesWhatRan == Executed /\ printed # ".DW" => printed = done

\* A word the trace and the disassembler name is never a syntax error to the
\* interpreter: a mode may refuse it, the dispatch may not.
NamedWordsDecode == printed \notin {"none", ".DW"} => done # "syntax"
================================================================================
