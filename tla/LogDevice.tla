----------------------------- MODULE LogDevice -----------------------------
(***************************************************************************)
(* The log device of QEMU: src/qemu/mmio.c, and week03/과제03/mmio.c, which *)
(* adds busy lines that nothing ever raises.  A byte written to DR goes to *)
(* a file of the host; a write to LDR removes the file and raises RX.  The *)
(* FIFOs of the peripheral are commented out: no byte can be refused.      *)
(*                                                                         *)
(* External: the host's file system.  The file keeps what it holds when    *)
(* QEMU ends; a file that is removed while it is open lives on without a   *)
(* name, and nobody can read it.                                           *)
(***************************************************************************)
EXTENDS Naturals, Sequences

VARIABLES
    log,       \* what the file LOGGING_FILE holds, <<>> when there is none
    logFile,   \* s->log_file: "none" (NULL), "named", "nameless"
    ris, imsc, \* raised and unmasked interrupts
    irq        \* the interrupt line

registers == <<ris, imsc, irq>>
device == <<log, logFile, registers>>

MIS == ris \cap imsc

\* Mutant: LDR raises the interrupt without a look at the mask and does not
\* drive the line when it is acknowledged.
UpdateOnlyUp(r) == ris' = r /\ irq' = (irq \/ r \cap imsc # {}) /\ UNCHANGED imsc

\* comento_mmio_update, after ris has become r
Update(r) == ris' = r /\ irq' = (r \cap imsc # {}) /\ UNCHANGED imsc

\* comento_mmio_write, DR: fprintf and fflush, if there is a file.
WriteDR(byte) ==
    /\ log' = IF logFile = "named" THEN Append(log, byte) ELSE log
    /\ Update(ris)
    /\ UNCHANGED logFile

\* ICR toggles what is written to it.
WriteICR(bits) ==
    /\ Update((ris \ bits) \cup (bits \ ris))
    /\ UNCHANGED <<log, logFile>>

\* LDR: the file is removed and stays open.
WriteLDR ==
    /\ log' = <<>>
    /\ logFile' = IF logFile = "named" THEN "nameless" ELSE logFile
    /\ Update(ris \cup {"RX"})

\* comento_mmio_init: fopen(LOGGING_FILE, "a"), which may fail; what the
\* file holds is kept.
OpenLog(handle) == handle \in {"named", "none"} /\ logFile' = handle /\ UNCHANGED log
=============================================================================
