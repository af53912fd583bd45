-------------------------------- MODULE Edid --------------------------------
(***************************************************************************)
(* parse_edid of common/src/edid/edid.c: how a monitor's description is    *)
(* read.  The 128 bytes are a record: whether the header is right, the     *)
(* port (digital, bit depth code), the eight pairs of bytes of standard    *)
(* timings, and the four blocks of 18 bytes.                               *)
(***************************************************************************)
EXTENDS Integers, Sequences, SequencesExt

High(byte) == byte \div 16
Low(byte)  == byte % 16
Bit(byte, n) == (byte \div 2^n) % 2

(* The frequency takes five of its six bits.                               *)
StandardTiming(pair) ==
  LET h_res  == (pair[1] + 31) * 8
      aspect == << <<16, 10>>, <<4, 3>>, <<5, 4>>, <<16, 9>> >>[pair[2] \div 64 + 1]
  IN  [h_res |-> h_res, v_freq |-> (pair[2] % 32) + 60,
       v_res |-> (h_res * aspect[2]) \div aspect[1]]

StandardTimings(pairs) ==
  LET valid == SelectSeq(pairs, LAMBDA p : p # <<1, 1>>)
  IN  [i \in DOMAIN valid |-> StandardTiming(valid[i])]

(* + binds closer than & in C: the two bits of byte 11 that extend the     *)
(* width of the vertical pulse become a mask on byte 10.                   *)
DetailedMode(b) ==
  [hactive |-> b[2] + High(b[4]) * 256, hblank |-> b[3] + Low(b[4]) * 256,
   vactive |-> b[5] + High(b[7]) * 256, vblank |-> b[6] + Low(b[7]) * 256,
   hsync_porch |-> b[8] + (b[11] \div 64) * 256,
   hsync_pulse |-> b[9] + (High(b[11]) % 4) * 256,
   vsync_porch |-> High(b[10]) + ((b[11] \div 4) % 4) * 16,
   vsync_pulse |-> Low(b[10]) + 16 * Bit(b[10], 4) * Bit(b[11], 0)
                             + 32 * Bit(b[10], 5) * Bit(b[11], 1),
   hborder |-> b[15], vborder |-> b[16],
   v_polarity |-> Bit(b[17], 2),
   h_polarity |-> IF Bit(b[17], 3) = 1 THEN Bit(b[17], 1) ELSE Bit(b[17], 2)]

IsDescriptor(b) == b[0] = 0 /\ b[1] = 0

(* One block: a timing goes behind those read before, also the one that    *)
(* ends the reading because its sync is not digital; that one's polarities *)
(* are left as they were.                                                  *)
ReadBlock(acc, b) ==
  LET n == acc.edid.count
      m == DetailedMode(b)
  IN  IF ~acc.ok \/ IsDescriptor(b) THEN acc
      ELSE IF Bit(b[17], 4) = 1
        THEN [acc EXCEPT !.edid.modes[n] = m, !.edid.count = n + 1]
      ELSE [acc EXCEPT !.ok = FALSE,
                       !.edid.modes[n] = [m EXCEPT !.v_polarity = acc.edid.modes[n].v_polarity,
                                                   !.h_polarity = acc.edid.modes[n].h_polarity]]

(* Whether the description is accepted, and what it leaves in the struct.  *)
ParseEdid(raw, old) ==
  IF ~raw.header \/ (raw.digital /\ raw.depth \notin 1 .. 6)
    THEN [ok |-> FALSE, edid |-> old]
  ELSE FoldLeft(ReadBlock,
                [ok |-> TRUE,
                 edid |-> [old EXCEPT !.standard = StandardTimings(raw.standard),
                                      !.count = 0]],
                raw.blocks)

(* Fresh memory of the bootstrap allocator, which nothing has used before. *)
NoMode ==
  [hactive |-> 0, hblank |-> 0, vactive |-> 0, vblank |-> 0,
   hsync_porch |-> 0, hsync_pulse |-> 0, vsync_porch |-> 0, vsync_pulse |-> 0,
   hborder |-> 0, vborder |-> 0, v_polarity |-> 0, h_polarity |-> 0]
FreshEdid ==
  [standard |-> <<>>, count |-> 0, modes |-> [i \in 0 .. 3 |-> NoMode]]

=============================================================================
