---------------------------------- MODULE Isa ----------------------------------
(***************************************************************************)
(* The instruction set as src/c8/private/instruction.c dispatches it: which *)
(* C function a 16-bit word selects, and in which interpreter modes that    *)
(* function runs.  An instruction is named after its C function without     *)
(* the "c8_i_" prefix.  A word is four nibbles a, x, y, b, as C8_EXPAND      *)
(* splits it; kk is the pair y, b and nnn the triple x, y, b.                *)
(***************************************************************************)
EXTENDS Naturals, Sequences

Nibble == 0..15

\* Interpreter modes (C8_MODE_CHIP8, C8_MODE_SCHIP, C8_MODE_XOCHIP).
Chip8  == 0
Schip  == 1
Xochip == 2
Modes  == {Chip8, Schip, Xochip}

\* What the default branches of the dispatch functions answer.
Invalid == "invalid"

\* The functions that begin with C8_SCHIP_EXCLUSIVE ...
SchipExclusive == {"scd_b", "scu_b", "scr", "scl", "exit", "low", "high",
                   "ld_hf_vx", "ld_r_vx", "ld_vx_r"}
\* ... and the one reachable function that begins with C8_XOCHIP_EXCLUSIVE.
XochipExclusive == {"ld_i_word"}

\* An instruction the current mode lets through.  A refused one returns
\* C8_INVALID_STATE_EXCEPTION before it changes anything.
Permitted(i, mode) == /\ i \in SchipExclusive => mode # Chip8
                      /\ i \in XochipExclusive => mode = Xochip

--------------------------------------------------------------------------------
\* 0ykk.  A non-zero x nibble is refused first; 00Cb and 00Db take any b.
Base(x, y, b) ==
  CASE x # 0                -> Invalid
    [] x = 0 /\ y = 12      -> "scd_b"
    [] x = 0 /\ y = 13      -> "scu_b"
    [] x = 0 /\ y = 14 /\ b = 0  -> "cls"
    [] x = 0 /\ y = 14 /\ b = 14 -> "ret"
    [] x = 0 /\ y = 15 /\ b \in 11..15 ->
         <<"scr", "scl", "exit", "low", "high">>[b - 10]
    [] OTHER -> Invalid

\* Mutant of Bitwise: two neighbouring cases swapped.
BitwiseSwapped(b) ==
  CASE b \in 0..7 -> <<"ld_vx_vy", "or_vx_vy", "and_vx_vy", "xor_vx_vy",
                       "add_vx_vy", "subn_vx_vy", "shr_vx_vy", "sub_vx_vy">>[b + 1]
    [] b = 14     -> "shl_vx_vy"
    [] OTHER      -> Invalid

\* 8xyb.
Bitwise(b) ==
  CASE b \in 0..7 -> <<"ld_vx_vy", "or_vx_vy", "and_vx_vy", "xor_vx_vy",
                       "add_vx_vy", "sub_vx_vy", "shr_vx_vy", "subn_vx_vy">>[b + 1]
    [] b = 14     -> "shl_vx_vy"
    [] OTHER      -> Invalid

\* Mutant of Key: SKNP under the low nibble of SKP.
KeyBothEnd14(y, b) == CASE y = 9  /\ b = 14 -> "skp_vx"
                        [] y = 10 /\ b = 14 -> "sknp_vx"
                        [] OTHER             -> Invalid

\* Exkk.
Key(y, b) == CASE y = 9  /\ b = 14 -> "skp_vx"
               [] y = 10 /\ b = 1  -> "sknp_vx"
               [] OTHER            -> Invalid

\* Fxkk.  The words F000 and F002 are matched before kk alone is looked at,
\* so Fx00 and Fx02 are invalid for every other x.
Misc(x, y, b) ==
  CASE x = 0 /\ y = 0 /\ b = 0 -> "ld_i_word"
    [] x = 0 /\ y = 0 /\ b = 2 -> "snd"
    [] y = 0 /\ b = 1  -> "pln_x"
    [] y = 0 /\ b = 7  -> "ld_vx_dt"
    [] y = 0 /\ b = 10 -> "ld_vx_k"
    [] y = 1 /\ b = 5  -> "ld_dt_vx"
    [] y = 1 /\ b = 8  -> "ld_st_vx"
    [] y = 1 /\ b = 14 -> "add_i_vx"
    [] y = 2 /\ b = 9  -> "ld_f_vx"
    [] y = 3 /\ b = 0  -> "ld_hf_vx"
    [] y = 3 /\ b = 3  -> "ld_b_vx"
    [] y = 3 /\ b = 10 -> "pit_x"
    [] y = 5 /\ b = 5  -> "ld_ip_vx"
    [] y = 6 /\ b = 5  -> "ld_vx_ip"
    [] y = 7 /\ b = 5  -> "ld_r_vx"
    [] y = 8 /\ b = 5  -> "ld_vx_r"
    [] OTHER -> Invalid

\* c8_parse_instruction: the first nibble chooses.  5xyb and 9xyb do not look
\* at b; the functions for 5xy2 and 5xy3 exist but nothing calls them.
Decode(a, x, y, b) ==
  CASE a = 0  -> Base(x, y, b)
    [] a \in 1..7 -> <<"jp_nnn", "call_nnn", "se_vx_kk", "sne_vx_kk",
                       "se_vx_vy", "ld_vx_kk", "add_vx_kk">>[a]
    [] a = 8  -> Bitwise(b)
    [] a \in 9..13 -> <<"sne_vx_vy", "ld_i_nnn", "jp_v0_nnn", "rnd_vx_kk",
                        "drw_vx_vy_b">>[a - 8]
    [] a = 14 -> Key(y, b)
    [] a = 15 -> Misc(x, y, b)

--------------------------------------------------------------------------------
\* The instructions grouped by what they do to the control state.
Skips == {"se_vx_kk", "sne_vx_kk", "se_vx_vy", "sne_vx_vy", "skp_vx", "sknp_vx"}

\* Those that touch only registers, I, memory or the display, and return 2.
Straight == {"scd_b", "scu_b", "cls", "scr", "scl", "low", "high", "ld_vx_kk",
             "add_vx_kk", "ld_vx_vy", "or_vx_vy", "and_vx_vy", "xor_vx_vy",
             "add_vx_vy", "sub_vx_vy", "shr_vx_vy", "subn_vx_vy", "shl_vx_vy",
             "ld_i_nnn", "rnd_vx_kk", "pln_x", "snd", "ld_vx_dt", "add_i_vx",
             "ld_f_vx", "ld_hf_vx", "ld_b_vx", "pit_x", "ld_ip_vx", "ld_vx_ip",
             "ld_r_vx", "ld_vx_r"}
================================================================================
