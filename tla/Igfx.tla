-------------------------------- MODULE Igfx --------------------------------
(***************************************************************************)
(* The graphics driver, devices/intel_gfx/src: igfx_matchdevice looks for  *)
(* its device in the PCI list, and igfx_display_init then checks the one   *)
(* port for a monitor, reads its EDID over the GMBUS four bytes at a time  *)
(* and programs the pipe for its preferred mode.  Meanwhile the monitor    *)
(* may be plugged and unplugged.                                           *)
(***************************************************************************)
EXTENDS Pci, Edid

CONSTANTS
  Intel, IgfxIds,  \* the vendor and the device ids igfx_devices lists
  Monitors,        \* records [raw, mode]: an EDID, and the mode it describes
  NoMonitor,
  Chunks,          \* igfx_gmbus_read's 0x80 bytes, in fours
  MaxPlugs         \* bound: monitors plugged in while the kernel starts

VARIABLES
  igfx,       \* "match", then "status", "read", "end"
  gfx,        \* the entry of device_set that matched
  plugged, plugs,
  seen,       \* the monitor whose EDID is read
  answering,  \* the GMBUS transaction is still alive
  read,       \* how many chunks igfx_gmbus_read has
  connected, edid,  \* of displays[0]
  port, pipe  \* IGFX_CHV_HDMID and the registers of pipe C

driver == <<igfx, gfx, seen, answering, read, connected, edid, port, pipe>>

(* A port to plug a monitor into comes with a graphics device.             *)
HasPort == \E r \in hw : r.vendor = Intel /\ r.id \in IgfxIds

IgfxInit ==
  /\ igfx = "match" /\ gfx = Absent
  /\ plugged \in {NoMonitor} \cup {m \in Monitors : HasPort} /\ plugs = 0
  /\ seen = NoMonitor /\ answering = FALSE /\ read = 0
  /\ connected = FALSE /\ edid = FreshEdid
  /\ port = Absent /\ pipe = Absent

Init == PciInit /\ IgfxInit

(* The monitor goes, and with it whatever the GMBUS was asking it.         *)
Unplug ==
  /\ plugged # NoMonitor
  /\ plugged' = NoMonitor
  /\ answering' = FALSE
  /\ UNCHANGED <<pci, igfx, gfx, plugs, seen, read, connected, edid, port, pipe>>

Plug(m) ==
  /\ HasPort /\ plugged = NoMonitor /\ plugs < MaxPlugs
  /\ plugged' = m /\ plugs' = plugs + 1
  /\ UNCHANGED <<pci, driver>>

(* The first entry of the list that is in the table of the driver.         *)
Match ==
  /\ phase = "listed" /\ igfx = "match"
  /\ LET matching == {i \in 0 .. device_count - 1 :
                        device_set[i].vendor = Intel /\ device_set[i].id \in IgfxIds}
     IN  IF matching = {} THEN igfx' = "end" /\ UNCHANGED gfx
         ELSE igfx' = "status" /\ gfx' = device_set[Min(matching)]
  /\ UNCHANGED <<pci, plugged, plugs, seen, answering, read, connected, edid,
                 port, pipe>>

(* igfx_display_isconnected, then the start of igfx_gmbus_read.            *)
CheckHotplug ==
  /\ igfx = "status"
  /\ IF plugged = NoMonitor THEN igfx' = "end" /\ UNCHANGED <<seen, answering>>
     ELSE igfx' = "read" /\ seen' = plugged /\ answering' = TRUE
  /\ UNCHANGED <<pci, gfx, plugged, plugs, read, connected, edid, port, pipe>>

(* igfx_gmbus_wait has no end but an answer.                               *)
ReadChunk ==
  /\ igfx = "read" /\ read < Chunks /\ answering
  /\ read' = read + 1
  /\ UNCHANGED <<pci, igfx, gfx, plugged, plugs, seen, answering, connected, edid,
                 port, pipe>>

(* The registers of one direction, each in the bits it has.                *)
Timing(active, blank, border, porch, pulse) ==
  LET reg(n) == (n - 1) % 8192
  IN  [total |-> <<reg(active + blank + border), (active - 1) % 4096>>,
       blank |-> <<reg(border + active + blank), reg(border + active)>>,
       sync  |-> <<reg(active + border + porch + pulse), reg(active + border + porch)>>]

(* igfx_display_pipe_setup                                                 *)
Pipe(m) ==
  [h   |-> Timing(m.hactive, m.hblank, m.hborder, m.hsync_porch, m.hsync_pulse),
   v   |-> Timing(m.vactive, m.vblank, m.vborder, m.vsync_porch, m.vsync_pulse),
   src |-> <<(m.hactive - 1) % 4096, (m.vactive - 1) % 4096>>]

(* Mutant of Preferred: the timing behind the last one that was read.      *)
Preferred_Next(e) == e.modes[e.count]

(* custom_mode_idx is 0, whether there is a detailed mode or not.          *)
Preferred(e) == e.modes[0]

(* The rest of igfx_display_checkhotplugs: a monitor whose EDID is refused *)
(* stays unconnected, with what was read of it left in the struct.         *)
SetUpDisplay ==
  /\ igfx = "read" /\ read = Chunks
  /\ LET parsed == ParseEdid(seen.raw, edid)
         mode   == Preferred(parsed.edid)
     IN  /\ edid' = parsed.edid
         /\ connected' = parsed.ok
         /\ IF parsed.ok
              THEN /\ port' = [v |-> mode.v_polarity, h |-> mode.h_polarity]
                   /\ pipe' = Pipe(mode)
              ELSE UNCHANGED <<port, pipe>>
  /\ igfx' = "end"
  /\ UNCHANGED <<pci, gfx, plugged, plugs, seen, answering, read>>

IgfxNext == Match \/ CheckHotplug \/ ReadChunk \/ SetUpDisplay

Next ==
  \/ PciNext /\ UNCHANGED <<driver, plugged, plugs>>
  \/ IgfxNext
  \/ Unplug \/ \E m \in Monitors : Plug(m)

-----------------------------------------------------------------------------
(* What the registers of one direction mean to the hardware.  A border     *)
(* lies on either side of the picture, so that the blanking begins behind  *)
(* one and ends before the other.                                          *)
Shows(t, active, blank, border, porch) ==
  /\ t.total[2] + 1 = active
  /\ t.blank[2] + 1 = active + border
  /\ t.blank[1] - t.blank[2] = blank
  /\ t.sync[2] - t.blank[2] = porch
  /\ border = 0 => t.total[1] + 1 = active + blank

(* A display that is marked connected shows the preferred mode of the      *)
(* monitor that was there when the port was checked: the geometry and the  *)
(* sync that its EDID describes come out of the pipe's and the port's      *)
(* registers.  Excepted are a vertical pulse of 16 lines or more, whose    *)
(* width is misread; the total of a direction with a border, which the     *)
(* code counts once (the end of the line or frame is a border early); and  *)
(* a monitor that describes no mode.  An analog port is no exception: the  *)
(* code accepts it and describes its mode as it does any other.            *)
ModeShown ==
  connected /\ seen.mode # NoMode =>
    LET m == seen.mode
    IN  /\ Shows(pipe.h, m.hactive, m.hblank, m.hborder, m.hsync_porch)
        /\ Shows(pipe.v, m.vactive, m.vblank, m.vborder, m.vsync_porch)
        /\ pipe.h.sync[1] - pipe.h.sync[2] = m.hsync_pulse
        /\ m.vsync_pulse < 16 => pipe.v.sync[1] - pipe.v.sync[2] = m.vsync_pulse
        /\ port = [v |-> m.v_polarity, h |-> m.h_polarity]

=============================================================================
