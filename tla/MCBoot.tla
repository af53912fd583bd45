------------------------------- MODULE MCBoot -------------------------------
(* Two bytes to a page, the first four reserved, then a kernel that ends   *)
(* in the middle of a page.                                                *)
EXTENDS Boot

Edid == INSTANCE Edid

E(addr, len, type) == [addr |-> addr, len |-> len, type |-> type]

(* Regions below, across and behind the reserved part and the kernel, or   *)
(* ending where the kernel does, and one of another type.                  *)
SmallMaps == {
  <<E(0, 2, 1), E(2, 12, 1), E(16, 4, 1)>>,
  <<E(0, 4, 1), E(4, 2, 1), E(6, 2, 1), E(12, 6, 1)>>,
  <<E(6, 6, 1), E(0, 6, 1)>>,
  <<E(2, 4, 1), E(8, 4, 2), E(12, 2, 1)>> }

Lapic(id) == [kind |-> "lapic", id |-> id]
Ioapic(base, pins) == [kind |-> "ioapic", base |-> base, pins |-> pins]
Isaovr(gsi, irq, low, level) ==
  [kind |-> "isaovr", gsi |-> gsi, irq |-> irq, low |-> low, level |-> level]

(* One I/O APIC of one pin, or of four; the timer's line moved, as on a PC; two I/O  *)
(* APICs with overrides in both and in front of them.                      *)
AllMadts == {
  <<Lapic(0), Ioapic(0, 1)>>,
  <<Lapic(0), Lapic(1), Ioapic(0, 4)>>,
  <<Lapic(0), Lapic(1), Isaovr(2, 0, FALSE, FALSE), Ioapic(0, 4),
    Isaovr(1, 1, TRUE, TRUE)>>,
  <<Ioapic(0, 3), Isaovr(2, 0, FALSE, FALSE), Isaovr(3, 1, TRUE, TRUE),
    Ioapic(3, 2), Lapic(0)>> }

-----------------------------------------------------------------------------
(* Two buses of three devices with up to three functions.                  *)
P(slot, fn, id, multi) ==
  [slot |-> slot, fn |-> fn, vendor |-> 8086, id |-> id, multi |-> multi]

(* Nothing; one device; functions missing in the middle and at the end of  *)
(* a device, two graphics functions, a device that its missing function 0  *)
(* hides, and the last device of all.                                      *)
SomeBuses == {
  {},
  {P(1, 0, 5, FALSE)},
  {P(0, 0, 1, TRUE), P(0, 2, 5, FALSE), P(2, 0, 2, TRUE), P(2, 1, 3, FALSE)},
  {P(0, 0, 5, FALSE), P(0, 1, 2, FALSE), P(3, 0, 5, TRUE), P(3, 1, 3, FALSE),
   P(4, 1, 5, FALSE), P(5, 0, 4, FALSE)} }

(* The buses have two entries, the second of which also starts at bus 1.   *)
TwoEntries == <<[base |-> 100, first |-> 0, last |-> 0], [base |-> 200, first |-> 1, last |-> 1]>>

Table(sig, good, body) == [sig |-> sig, good |-> good, body |-> body]
Stale == Table("MCFG", FALSE, <<[base |-> 500, first |-> 0, last |-> 1]>>)
Whole == Table("MCFG", TRUE, TwoEntries)
Later == Table("MCFG", TRUE, <<[base |-> 600, first |-> 0, last |-> 1]>>)
Madt  == Table("APIC", TRUE, <<>>)

Root(good, tables) == Table("root", good, tables)
NoRoot == [sig |-> "NULL", good |-> FALSE, body |-> <<>>]

(* The old root table alone or with a new one, which may be damaged, hold  *)
(* a hole or a damaged MCFG, or lack the MCFG; the old one has another.    *)
Old(tables) == [revision |-> 0, rsdt |-> Root(TRUE, tables), xsdt |-> NoRoot]
New(root)   == [revision |-> 2, rsdt |-> Root(TRUE, <<Madt, Later>>), xsdt |-> root]

Usual == New(Root(TRUE, <<NoRoot, Stale, Madt, Whole, Later>>))

SomeRsdps ==
  {Usual, Old(<<Madt, Whole>>), New(Root(FALSE, <<Whole>>)), New(Root(TRUE, <<Madt>>))}

(* A mode as VESA lays it out in 18 bytes.                                 *)
Block(m) ==
  [i \in 0 .. 17 |->
     CASE i = 2  -> m.hactive % 256
       [] i = 3  -> m.hblank % 256
       [] i = 4  -> (m.hactive \div 256) * 16 + (m.hblank \div 256)
       [] i = 5  -> m.vactive % 256
       [] i = 6  -> m.vblank % 256
       [] i = 7  -> (m.vactive \div 256) * 16 + (m.vblank \div 256)
       [] i = 8  -> m.hsync_porch % 256
       [] i = 9  -> m.hsync_pulse % 256
       [] i = 10 -> (m.vsync_porch % 16) * 16 + (m.vsync_pulse % 16)
       [] i = 11 -> (m.hsync_porch \div 256) * 64 + (m.hsync_pulse \div 256) * 16
                    + (m.vsync_porch \div 16) * 4 + (m.vsync_pulse \div 16)
       [] i = 15 -> m.hborder
       [] i = 16 -> m.vborder
       [] i = 17 -> 24 + m.v_polarity * 4 + m.h_polarity * 2
       [] OTHER  -> 1]

Mode(h, v, hsync, vsync, border, pol) ==
  [hactive |-> h[1], hblank |-> h[2], vactive |-> v[1], vblank |-> v[2],
   hsync_porch |-> hsync[1], hsync_pulse |-> hsync[2],
   vsync_porch |-> vsync[1], vsync_pulse |-> vsync[2],
   hborder |-> border, vborder |-> border, v_polarity |-> pol[1], h_polarity |-> pol[2]]

FullHd == Mode(<<1920, 280>>, <<1080, 45>>, <<88, 44>>, <<4, 5>>, 0, <<1, 1>>)
Vga    == Mode(<<640, 144>>, <<480, 29>>, <<8, 96>>, <<2, 2>>, 8, <<0, 0>>)
Wide   == Mode(<<2560, 600>>, <<1440, 60>>, <<300, 280>>, <<20, 18>>, 0, <<1, 0>>)

Name   == [i \in 0 .. 17 |-> 0]
Analog == [Block(Vga) EXCEPT ![17] = 8]

Raw(header, digital, depth, blocks) ==
  [header |-> header, digital |-> digital, depth |-> depth, blocks |-> blocks,
   standard |-> << <<1, 1>>, <<209, 192>>, <<129, 128>> >>]

(* Good ones: of a second mode, on an analog port with the name before the *)
(* mode, and with borders; one without a mode; and one refused for each    *)
(* reason.                                                                 *)
AllMonitors == {
  [raw |-> Raw(TRUE, TRUE, 2, <<Block(FullHd), Block(Vga), Name, Name>>), mode |-> FullHd],
  [raw |-> Raw(TRUE, FALSE, 0, <<Name, Block(Wide), Name, Block(Vga)>>), mode |-> Wide],
  [raw |-> Raw(TRUE, TRUE, 2, <<Block(Vga), Name, Name, Name>>), mode |-> Vga],
  [raw |-> Raw(TRUE, TRUE, 1, <<Name, Name, Name, Name>>), mode |-> Edid!NoMode],
  [raw |-> Raw(TRUE, TRUE, 2, <<Block(Vga), Analog, Name, Name>>), mode |-> Vga],
  [raw |-> Raw(TRUE, TRUE, 0, <<Block(Vga), Name, Name, Name>>), mode |-> Vga],
  [raw |-> Raw(FALSE, TRUE, 2, <<Block(Vga), Name, Name, Name>>), mode |-> Vga] }

(* Memory maps and interrupts vary on a machine without devices; devices   *)
(* and monitors on one with the least memory map and MADT; the tables of   *)
(* the firmware on one with devices.                                       *)
MCInit ==
  /\ Init
  /\ \/ rsdp = Usual
     \/ hw # {} /\ plugged = NoMonitor
  /\ \/ hw = {}
     \/ Len(mmap) = 2 /\ Len(madt) = 2

MCSpec == MCInit /\ [][Next]_vars

=============================================================================
