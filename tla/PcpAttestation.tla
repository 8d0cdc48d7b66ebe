--------------------------- MODULE PcpAttestation ---------------------------
(***************************************************************************)
(* Platform attestation in PCPTool (src/PCPTool.v11/dll/AttestationApi.cpp *)
(* and TPM20.cpp): an attester collects the measured-boot log, the PCR     *)
(* values and, with an AIK, a quote, in separate calls to the TBS, while   *)
(* the platform goes on measuring or reboots; a verifier replays the log   *)
(* and compares.  Without an AIK the verifier runs on the platform itself  *)
(* and compares with the PCRs it reads.                                    *)
(*                                                                         *)
(* A PCR value is the value the PCR started from and the sequence of       *)
(* digests extended into it.  PCR values are read in blocks (of eight), in *)
(* one TPM command each.                                                   *)
(***************************************************************************)
EXTENDS Naturals, Sequences, FiniteSets, SequencesExt

CONSTANTS
  Pcrs,          \* the platform's PCRs
  Pcr0,          \* the PCR a startup-locality event is about
  Resettable,    \* the PCRs that start at ff
  Block,         \* [Pcrs -> 1 .. Blocks]: the command that reads a PCR
  Blocks,
  Digests,       \* what is measured
  Localities,    \* startup localities: "zero" or "three"
  Masks,         \* PCR masks the attester is asked for
  MaxEvents,     \* log entries per boot
  MaxBoots,
  MaxNonces      \* challenges of the verifier

ASSUME AttestationAssumption ==
  /\ Pcr0 \in Pcrs \ Resettable /\ Resettable \subseteq Pcrs
  /\ Blocks \in Nat \ {0} /\ Block \in [Pcrs -> 1 .. Blocks]
  /\ Localities \subseteq {"zero", "three"} /\ Localities # {}
  /\ Masks \subseteq (SUBSET Pcrs) \ {{}}
  /\ MaxEvents \in Nat \ {0} /\ MaxBoots \in Nat \ {0} /\ MaxNonces \in Nat

VARIABLES
  pcrs,     \* the TPM's PCRs
  log,      \* the log the TBS keeps for this boot
  half,     \* the event that is extended and not yet logged, or NoEvent
  boot,     \* boots so far
  att,      \* the attester: TpmAttGeneratePlatformAttestation
  blob,     \* the attestation it made last
  ver,      \* the verifier: TpmAttValidatePlatformAttestation
  quiet     \* history: what was not disturbed by a measurement: the attester since
            \* it got its log ("att"), the making of the blob ("made"), the platform
            \* since the blob's log was got ("since")

vars == <<pcrs, log, half, boot, att, blob, ver, quiet>>

NoEvent == [pcr |-> Pcr0, type |-> "none", data |-> "none"]
Value(start) == [start |-> start, ext |-> <<>>]
Blank == {Value("zero"), Value("ff")}

NoQuote == [mask |-> {}, values |-> << >>, nonce |-> 0]
NoBlob == [signed |-> FALSE, pcrs |-> << >>, quote |-> NoQuote, log |-> <<>>, boot |-> 0]
NoCall == [at |-> "idle", signed |-> FALSE, mask |-> {}, cbOutput |-> 0, cbLog |-> 0,
           log |-> <<>>, pcrs |-> << >>, block |-> 1, quote |-> NoQuote, nonce |-> 0]
NoCheck == [at |-> "idle", nonce |-> 0, local |-> FALSE, nonced |-> FALSE, current |-> << >>,
            block |-> 1, began |-> << >>, result |-> "none"]

-----------------------------------------------------------------------------
(* The platform (external): it extends a PCR, then logs the event.         *)
StartValue(locality) ==
  [p \in Pcrs |-> Value(IF p \in Resettable THEN "ff"
                        ELSE IF p = Pcr0 THEN locality ELSE "zero")]
StartLog(locality) ==
  IF locality = "zero" THEN <<>>
  ELSE <<[pcr |-> Pcr0, type |-> "locality", data |-> locality]>>

Measure == \E p \in Pcrs, d \in Digests :
  /\ half = NoEvent /\ Len(log) < MaxEvents
  /\ pcrs' = [pcrs EXCEPT ![p].ext = Append(@, d)]
  /\ half' = [pcr |-> p, type |-> "extend", data |-> d]
  /\ quiet' = quiet \ {"att", "since"}
  /\ UNCHANGED <<log, boot, att, blob, ver>>

LogMeasurement ==
  /\ half # NoEvent
  /\ log' = Append(log, half)
  /\ half' = NoEvent
  /\ quiet' = quiet \ {"att", "since"}
  /\ UNCHANGED <<pcrs, boot, att, blob, ver>>

LogNoAction == \E p \in Pcrs :
  /\ half = NoEvent /\ Len(log) < MaxEvents
  /\ log' = Append(log, [pcr |-> p, type |-> "noaction", data |-> "none"])
  /\ quiet' = quiet \ {"att", "since"}
  /\ UNCHANGED <<pcrs, half, boot, att, blob, ver>>

(* A reboot ends the attester, and the verifier if it runs here; a blob    *)
(* that was stored or sent survives.                                       *)
Reboot == \E locality \in Localities :
  /\ boot < MaxBoots
  /\ boot' = boot + 1
  /\ pcrs' = StartValue(locality) /\ log' = StartLog(locality)
  /\ half' = NoEvent
  /\ att' = NoCall
  /\ ver' = IF ver.at = "idle" THEN ver ELSE [NoCheck EXCEPT !.nonce = ver.nonce]
  /\ quiet' = quiet \ {"att", "since"}
  /\ UNCHANGED blob

-----------------------------------------------------------------------------
(* TpmAttiFilterLog and TpmAttiComputeSoftPCRs: each goes through the log   *)
(* from the first event to the last.                                       *)
Keep(kept, e, mask) == IF e.pcr \in mask THEN Append(kept, e) ELSE kept

FilterLog(l, mask) ==
  LET kept[i \in 0 .. Len(l)] ==
        IF i = 0 THEN <<>> ELSE Keep(kept[i - 1], l[i], mask)
  IN  kept[Len(l)]

ZeroedPcrs == [p \in Pcrs |-> Value(IF p \in Resettable THEN "ff" ELSE "zero")]

Replay(soft, e) ==
  CASE e.type = "locality" -> [soft EXCEPT ![Pcr0].start = e.data]
    [] e.type = "extend"   -> [soft EXCEPT ![e.pcr].ext = Append(@, e.data)]
    [] OTHER               -> soft

SoftPcrs(l) ==
  LET soft[i \in 0 .. Len(l)] ==
        IF i = 0 THEN ZeroedPcrs ELSE Replay(soft[i - 1], l[i])
  IN  soft[Len(l)]

(* A startup locality is accepted for a PCR that is still zero.            *)
Replayable(l) ==
  /\ l # <<>>
  /\ \A i \in DOMAIN l : l[i].type = "locality" =>
        SoftPcrs(SubSeq(l, 1, i - 1))[Pcr0] = Value("zero")

LogMask(l) == {p \in Pcrs : \E i \in DOMAIN l : l[i].type = "extend" /\ l[i].pcr = p}

-----------------------------------------------------------------------------
(* The attester.  It is called first without a buffer, then with one of    *)
(* the size it was told.                                                   *)
Generate == \E signed \in BOOLEAN, mask \in Masks :
  /\ att.at = "idle"
  /\ signed => ver.nonce > 0
  /\ att' = [NoCall EXCEPT !.at = "called", !.signed = signed, !.mask = mask,
                           !.nonce = ver.nonce]
  /\ UNCHANGED <<pcrs, log, half, boot, blob, ver, quiet>>

GetLogSize ==
  /\ att.at = "called"
  /\ att' = [att EXCEPT !.at = "sized", !.cbLog = Len(log)]
  /\ UNCHANGED <<pcrs, log, half, boot, blob, ver, quiet>>

(* The log is fetched into a buffer of the size just asked for; then the   *)
(* size of the result is known, and returned when there is no buffer for   *)
(* it or too small a one.                                                  *)
GetLog ==
  /\ att.at = "sized"
  /\ quiet' = IF half = NoEvent THEN quiet \cup {"att"} ELSE quiet \ {"att"}
  /\ att' = LET cbRequired == 1 + Len(FilterLog(log, att.mask))
            IN  IF Len(log) > att.cbLog \/ log = <<>> THEN NoCall
                ELSE IF att.cbOutput = 0 \/ att.cbOutput < cbRequired
                     THEN [att EXCEPT !.at = "resized", !.cbOutput = cbRequired]
                     ELSE [att EXCEPT !.at = "reading", !.log = log]
  /\ UNCHANGED <<pcrs, log, half, boot, blob, ver>>

CallAgain ==
  /\ att.at = "resized"
  /\ att' = [att EXCEPT !.at = "called"]
  /\ UNCHANGED <<pcrs, log, half, boot, blob, ver, quiet>>

(* GetPlatformPcrs20: one PCR_Read per block; pcrUpdateCounter is skipped. *)
InBlock(n) == {p \in Pcrs : Block[p] = n}
Read(values, n) == [p \in DOMAIN values \cup InBlock(n) |->
                      IF p \in InBlock(n) THEN pcrs[p] ELSE values[p]]

(* mutant of ReadPcrs: the last block is left out                          *)
ReadFewerPcrs ==
  /\ att.at = "reading"
  /\ att' = [att EXCEPT !.pcrs = Read(@, att.block), !.block = @ + 1,
                        !.at = IF att.block < Blocks - 1 THEN @
                               ELSE IF att.signed THEN "quoting" ELSE "copying"]
  /\ UNCHANGED <<pcrs, log, half, boot, blob, ver, quiet>>

ReadPcrs ==
  /\ att.at = "reading"
  /\ att' = [att EXCEPT !.pcrs = Read(@, att.block), !.block = @ + 1,
                        !.at = IF att.block < Blocks THEN @
                               ELSE IF att.signed THEN "quoting" ELSE "copying"]
  /\ UNCHANGED <<pcrs, log, half, boot, blob, ver, quiet>>

(* GenerateQuote20: the TPM signs the selected PCRs and the nonce.         *)
GenerateQuote ==
  /\ att.at = "quoting"
  /\ att' = [att EXCEPT !.at = "copying",
                        !.quote = [mask |-> att.mask, values |-> Restrict(pcrs, att.mask),
                                   nonce |-> att.nonce]]
  /\ UNCHANGED <<pcrs, log, half, boot, blob, ver, quiet>>

(* mutant of Finish: the log goes out unfiltered                           *)
FinishUnfiltered ==
  /\ att.at = "copying" /\ ver.at = "idle"
  /\ blob' = [signed |-> att.signed, pcrs |-> att.pcrs, quote |-> att.quote,
              log |-> att.log, boot |-> boot]
  /\ att' = NoCall
  /\ ver' = [NoCheck EXCEPT !.nonce = ver.nonce]
  /\ quiet' = IF "att" \in quiet THEN quiet \cup {"made", "since"}
                                ELSE quiet \ {"made", "since"}
  /\ UNCHANGED <<pcrs, log, half, boot>>

(* The attestation a verifier is at work on is its own copy: a new one     *)
(* takes its place when the verifier is done.                              *)
Finish ==
  /\ att.at = "copying" /\ ver.at = "idle"
  /\ blob' = [signed |-> att.signed, pcrs |-> att.pcrs, quote |-> att.quote,
              log |-> FilterLog(att.log, att.mask), boot |-> boot]
  /\ att' = NoCall
  /\ ver' = [NoCheck EXCEPT !.nonce = ver.nonce]
  /\ quiet' = IF "att" \in quiet THEN quiet \cup {"made", "since"}
                                ELSE quiet \ {"made", "since"}
  /\ UNCHANGED <<pcrs, log, half, boot>>

-----------------------------------------------------------------------------
(* The verifier.                                                           *)
Challenge ==
  /\ ver.at = "idle" /\ ver.nonce < MaxNonces
  /\ ver' = [NoCheck EXCEPT !.nonce = ver.nonce + 1]
  /\ UNCHANGED <<pcrs, log, half, boot, att, blob, quiet>>

(* ValidateQuoteContext20: the nonce, if the caller passes one, and the    *)
(* PCR list against the quoted digest.                                     *)
ValidateQuote(nonced) ==
  /\ nonced => blob.quote.nonce = ver.nonce
  /\ Restrict(blob.pcrs, blob.quote.mask) = blob.quote.values

(* mutant of ReplayMatches: the covered PCRs are not compared              *)
ReplayCovers(mask) ==
  /\ Replayable(blob.log)
  /\ \A p \in Pcrs \ mask : SoftPcrs(blob.log)[p] \in Blank

(* Steps 4 and 5: the log's PCRs against the covered ones of the list;     *)
(* nothing may be logged for the others.                                   *)
ReplayMatches(mask) ==
  /\ Replayable(blob.log)
  /\ \A p \in Pcrs : IF p \in mask THEN blob.pcrs[p] = SoftPcrs(blob.log)[p]
                                   ELSE SoftPcrs(blob.log)[p] \in Blank

(* With an AIK: its signature is verified, then what the quote covers.     *)
ValidateSigned == \E nonced \in BOOLEAN :
  /\ ver.at = "idle" /\ blob # NoBlob
  /\ ver' = [NoCheck EXCEPT !.nonce = ver.nonce, !.nonced = nonced,
                            !.result = IF blob.signed /\ ValidateQuote(nonced)
                                          /\ ReplayMatches(blob.quote.mask)
                                       THEN "accepted" ELSE "rejected"]
  /\ UNCHANGED <<pcrs, log, half, boot, att, blob, quiet>>

(* Without an AIK, whether the attestation is signed or not: the log says  *)
(* which PCRs are covered, and step 6 reads the platform's PCRs.           *)
ValidateLocal ==
  /\ ver.at = "idle" /\ blob # NoBlob
  /\ ver' = IF ReplayMatches(LogMask(blob.log))
            THEN [NoCheck EXCEPT !.nonce = ver.nonce, !.local = TRUE, !.at = "reading",
                                 !.began = pcrs]
            ELSE [NoCheck EXCEPT !.nonce = ver.nonce, !.local = TRUE, !.result = "rejected"]
  /\ UNCHANGED <<pcrs, log, half, boot, att, blob, quiet>>

ReadCurrent ==
  /\ ver.at = "reading"
  /\ ver' = [ver EXCEPT !.current = Read(@, ver.block), !.block = @ + 1,
                        !.at = IF ver.block < Blocks THEN @ ELSE "comparing"]
  /\ UNCHANGED <<pcrs, log, half, boot, att, blob, quiet>>

CompareLocal ==
  /\ ver.at = "comparing"
  /\ ver' = [NoCheck EXCEPT !.nonce = ver.nonce, !.local = TRUE,
                            !.result = IF \A p \in LogMask(blob.log) :
                                            blob.pcrs[p] = ver.current[p]
                                       THEN "accepted" ELSE "rejected"]
  /\ UNCHANGED <<pcrs, log, half, boot, att, blob, quiet>>

-----------------------------------------------------------------------------
Init == \E locality \in Localities :
  /\ pcrs = StartValue(locality) /\ log = StartLog(locality)
  /\ half = NoEvent
  /\ boot = 1
  /\ att = NoCall
  /\ blob = NoBlob
  /\ ver = NoCheck
  /\ quiet = {}

Platform == Measure \/ LogMeasurement \/ LogNoAction \/ Reboot
Attester == Generate \/ GetLogSize \/ GetLog \/ CallAgain \/ ReadPcrs \/ GenerateQuote \/ Finish
Verifier == Challenge \/ ValidateSigned \/ ValidateLocal \/ ReadCurrent \/ CompareLocal

Next == Platform \/ Attester \/ Verifier
Spec == Init /\ [][Next]_vars

-----------------------------------------------------------------------------
TypeOK ==
  /\ \A p \in Pcrs : pcrs[p].ext \in Seq(Digests)
  /\ Len(log) <= MaxEvents /\ boot \in 1 .. MaxBoots
  /\ att.at \in {"idle", "called", "sized", "resized", "reading", "quoting", "copying"}
  /\ att.block \in 1 .. Blocks + 1
  /\ att.at \in {"quoting", "copying"} => DOMAIN att.pcrs = Pcrs
  /\ ver.at \in {"idle", "reading", "comparing"} /\ ver.nonce \in 0 .. MaxNonces
  /\ ver.at = "comparing" => DOMAIN ver.current = Pcrs
  /\ quiet \subseteq {"att", "made", "since"}

Judges(verdict) == ver' # ver /\ ver'.at = "idle" /\ ver'.result = verdict

(* Acceptance means what the caller is told, "the log data may be          *)
(* considered trustworthy": the log replays to the covered PCRs at one     *)
(* instant, though log, PCR blocks and quote were collected one after      *)
(* another while the platform was measuring.  With an AIK this is the      *)
(* instant of a quote, made for this challenge if a nonce is passed;       *)
(* without, the instant the validation began, unless the platform has      *)
(* rebooted since the attestation was made.                                *)
AcceptedMeansTrue ==
  [][Judges("accepted") =>
       LET soft == SoftPcrs(blob.log)
       IN  IF ver'.local
           THEN blob.boot = boot => \A p \in LogMask(blob.log) : soft[p] = ver.began[p]
           ELSE /\ blob.signed
                /\ ver'.nonced => blob.quote.nonce = ver.nonce
                /\ \A p \in blob.quote.mask : soft[p] = blob.quote.values[p]
    ]_vars

(* An attestation made while nothing was measured is accepted: the filter, *)
(* the replay, the list of PCR values and the quote agree with each other. *)
(* Exceptions are a filtered log without entries, no signature or another  *)
(* challenge where an AIK is passed, and, where none is, a platform that   *)
(* has gone on measuring and a startup locality for a PCR 0 nothing was    *)
(* measured into.                                                          *)
QuietPlatformValidates ==
  [][Judges("rejected") =>
       \/ "made" \notin quiet
       \/ blob.log = <<>>
       \/ ~ver'.local /\ ~blob.signed
       \/ ~ver'.local /\ ver'.nonced /\ blob.quote.nonce # ver.nonce
       \/ ver'.local /\ "since" \notin quiet
       \/ ver'.local /\ Pcr0 \notin LogMask(blob.log)
          /\ \E i \in DOMAIN blob.log : blob.log[i].type = "locality"
    ]_vars
=============================================================================
