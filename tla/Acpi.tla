-------------------------------- MODULE Acpi --------------------------------
(***************************************************************************)
(* acpi_tables_find_table of kernel/src/acpi.c: the search for a table of  *)
(* the firmware.  A table is a record [sig, good, body], good meaning that *)
(* its checksum is right, and a root table has the body that it points to, *)
(* a sequence of tables.  The descriptor of the root tables has a revision *)
(* and an address of each kind, which may be missing.                      *)
(***************************************************************************)
EXTENDS Integers, Sequences, SequencesExt

(* What a search without success returns: NULL, or -1.                     *)
Missing == [sig |-> "NULL", good |-> FALSE, body |-> <<>>]
Invalid == [sig |-> "-1", good |-> FALSE, body |-> <<>>]

Suits(table, name) == table.sig = name /\ table.good

(* The newer root table is used whenever there is one, without going back  *)
(* to the older if it is damaged.  In both, pointers to nothing suit       *)
(* nothing, and the first table that suits is taken.  The newer one, if it *)
(* is damaged, gives -1, the older one NULL.                               *)
FindTable(rsdp, name) ==
  LET newer == rsdp.revision # 0 /\ rsdp.xsdt # Missing
      root  == IF newer THEN rsdp.xsdt ELSE rsdp.rsdt
      hits  == {i \in DOMAIN root.body : Suits(root.body[i], name)}
  IN  IF newer /\ ~root.good THEN Invalid
      ELSE IF ~root.good \/ hits = {} THEN Missing
      ELSE root.body[CHOOSE i \in hits : \A j \in hits : i <= j]

=============================================================================
