------------------------- MODULE PcpAttestationProof -------------------------
(***************************************************************************)
(* Proofs about PcpAttestation, for every number of PCRs, blocks, events,  *)
(* boots and challenges: type correctness, that an accepted attestation    *)
(* describes one instant, and that one made in quiet is accepted.          *)
(*                                                                         *)
(* Within a boot a PCR only grows.  So a value that was read when the      *)
(* attestation was made precedes the value at the moment the validation    *)
(* began, and that one precedes the value the validation reads later: if   *)
(* the first and the last are equal, the one in between is, too, however   *)
(* the PCR_Read commands are torn.                                         *)
(*                                                                         *)
(* In quiet the log accounts for the PCRs, and filtering the log does not  *)
(* change what it replays to: the second half of the module.               *)
(***************************************************************************)
EXTENDS PcpAttestation, SequenceTheorems, WellFoundedInduction, TLAPS

PcrValues == [start : {"zero", "three", "ff"}, ext : Seq(Digests)]
Events == [pcr : Pcrs, type : {"none", "locality", "extend", "noaction"},
           data : Digests \cup {"none", "zero", "three"}]

(* v is an earlier value of a PCR than w, or the same.                     *)
Precedes(v, w) ==
  /\ v.start = w.start
  /\ Len(v.ext) <= Len(w.ext)
  /\ \A i \in 1 .. Len(v.ext) : v.ext[i] = w.ext[i]

(* The PCRs that the PCR_Read commands before the n-th have read.          *)
Before(n) == {p \in Pcrs : Block[p] < n}

PlatformInv ==
  /\ pcrs \in [Pcrs -> PcrValues]
  /\ log \in Seq(Events) /\ Len(log) <= MaxEvents
  /\ half \in Events /\ (half # NoEvent => Len(log) < MaxEvents)
  /\ boot \in 1 .. MaxBoots
  /\ quiet \subseteq {"att", "made", "since"}

AttesterInv ==
  /\ DOMAIN att = DOMAIN NoCall
  /\ att.at \in {"idle", "called", "sized", "resized", "reading", "quoting", "copying"}
  /\ att.mask \subseteq Pcrs /\ att.quote.mask \subseteq Pcrs
  /\ att.block \in 1 .. Blocks + 1
  /\ att.at \in {"called", "sized", "resized"} => att.block = 1 /\ att.pcrs = << >>
  /\ att.at = "reading" => att.block <= Blocks
  /\ att.at \in {"quoting", "copying"} => att.block = Blocks + 1
  /\ att.at \in {"reading", "quoting", "copying"} =>
       /\ DOMAIN att.pcrs = Before(att.block)
       /\ \A p \in Before(att.block) : att.pcrs[p] \in PcrValues /\ Precedes(att.pcrs[p], pcrs[p])

BlobInv ==
  /\ blob.boot \in 0 .. boot
  /\ blob.quote.mask \subseteq Pcrs
  /\ blob.boot = boot =>
       \A p \in Pcrs : blob.pcrs[p] \in PcrValues /\ Precedes(blob.pcrs[p], pcrs[p])

VerifierInv ==
  /\ DOMAIN ver = DOMAIN NoCheck
  /\ ver.at \in {"idle", "reading", "comparing"} /\ ver.nonce \in 0 .. MaxNonces
  /\ ver.at # "idle" =>
       /\ ver.block \in 1 .. Blocks + 1
       /\ ver.at = "reading" => ver.block <= Blocks
       /\ ver.at = "comparing" => ver.block = Blocks + 1
       /\ ver.local /\ ReplayMatches(LogMask(blob.log))
       /\ \A p \in Pcrs : ver.began[p] \in PcrValues /\ Precedes(ver.began[p], pcrs[p])
       /\ blob.boot = boot => \A p \in Pcrs : /\ blob.pcrs[p] \in PcrValues
                                              /\ Precedes(blob.pcrs[p], ver.began[p])
       /\ DOMAIN ver.current = Before(ver.block)
       /\ \A p \in Before(ver.block) : /\ ver.current[p] \in PcrValues
                                       /\ Precedes(ver.began[p], ver.current[p])

IInv == PlatformInv /\ AttesterInv /\ BlobInv /\ VerifierInv

-----------------------------------------------------------------------------
(* The order of PCR values.                                                *)

LEMMA PrecedesItself ==
  ASSUME NEW v \in PcrValues
  PROVE  Precedes(v, v)
BY DEF Precedes, PcrValues

LEMMA PrecedesTransitive ==
  ASSUME NEW u \in PcrValues, NEW v \in PcrValues, NEW w \in PcrValues,
         Precedes(u, v), Precedes(v, w)
  PROVE  Precedes(u, w)
BY DEF Precedes, PcrValues

LEMMA Sandwich ==
  ASSUME NEW u \in PcrValues, NEW v \in PcrValues,
         Precedes(u, v), Precedes(v, u)
  PROVE  u = v
<1>1. /\ u.start = v.start /\ Len(u.ext) = Len(v.ext)
      /\ u.ext \in Seq(Digests) /\ v.ext \in Seq(Digests)
      /\ \A i \in 1 .. Len(u.ext) : u.ext[i] = v.ext[i]
  BY DEF Precedes, PcrValues
<1>2. u.ext = v.ext
  BY <1>1
<1> QED BY <1>1, <1>2 DEF PcrValues

LEMMA Extended ==
  ASSUME NEW v \in PcrValues, NEW d \in Digests
  PROVE  LET w == [v EXCEPT !.ext = Append(@, d)]
         IN  w \in PcrValues /\ Precedes(v, w)
BY DEF Precedes, PcrValues

(* Everything has been read before the block after the last.               *)
LEMMA AllRead == Before(Blocks + 1) = Pcrs /\ Before(1) = {}
BY AttestationAssumption DEF Before

LEMMA ReadOneMore ==
  ASSUME IInv, NEW values, NEW n \in 1 .. Blocks, DOMAIN values = Before(n)
  PROVE  /\ DOMAIN Read(values, n) = Before(n + 1)
         /\ \A p \in Before(n) : Read(values, n)[p] = values[p]
         /\ \A p \in Before(n + 1) \ Before(n) : Read(values, n)[p] = pcrs[p]
<1>1. Before(n) \cup InBlock(n) = Before(n + 1) /\ Before(n) \cap InBlock(n) = {}
      /\ Before(n + 1) \ Before(n) = InBlock(n)
  BY AttestationAssumption DEF Before, InBlock
<1> QED BY <1>1 DEF Read

-----------------------------------------------------------------------------
LEMMA Starts ==
  ASSUME NEW locality \in Localities
  PROVE  /\ StartValue(locality) \in [Pcrs -> PcrValues]
         /\ StartLog(locality) \in Seq(Events) /\ Len(StartLog(locality)) <= MaxEvents
<1>1. locality \in {"zero", "three"} /\ Pcr0 \in Pcrs /\ MaxEvents >= 1
  BY AttestationAssumption
<1>2. StartValue(locality) \in [Pcrs -> PcrValues]
  BY <1>1 DEF StartValue, Value, PcrValues
<1>3. [pcr |-> Pcr0, type |-> "locality", data |-> locality] \in Events
  BY <1>1 DEF Events
<1>4. CASE locality = "zero"
  BY <1>1, <1>2, <1>4, AttestationAssumption DEF StartLog
<1>5. CASE locality = "three"
  <2> DEFINE e == [pcr |-> Pcr0, type |-> "locality", data |-> locality]
  <2>1. StartLog(locality) = <<e>>
    BY <1>5 DEF StartLog
  <2>2. e \in Events
    BY <1>3
  <2> HIDE DEF e
  <2>3. <<e>> \in Seq(Events) /\ Len(<<e>>) = 1
    BY <2>2
  <2> QED BY <1>1, <1>2, <2>1, <2>3, AttestationAssumption
<1> QED BY <1>1, <1>4, <1>5

LEMMA NoEventType == NoEvent \in Events
BY AttestationAssumption DEF NoEvent, Events

LEMMA InitKeeps == Init => IInv
<1> SUFFICES ASSUME Init PROVE IInv
  OBVIOUS
<1>1. PlatformInv
  BY Starts, NoEventType, AttestationAssumption DEF Init, PlatformInv
<1>2. AttesterInv
  BY AttestationAssumption DEF Init, AttesterInv, NoCall, NoQuote
<1>3. BlobInv
  BY DEF Init, BlobInv, NoBlob, NoQuote
<1>4. VerifierInv
  BY AttestationAssumption DEF Init, VerifierInv, NoCheck
<1> QED BY <1>1, <1>2, <1>3, <1>4 DEF IInv

-----------------------------------------------------------------------------
(* The platform's steps.  In a measurement every value that was read still *)
(* precedes the PCR's.                                                     *)

LEMMA Grown ==
  ASSUME PlatformInv, Measure
  PROVE  /\ pcrs' \in [Pcrs -> PcrValues]
         /\ \A p \in Pcrs, u \in PcrValues : Precedes(u, pcrs[p]) => Precedes(u, pcrs'[p])
<1>1. PICK q \in Pcrs, d \in Digests : pcrs' = [pcrs EXCEPT ![q].ext = Append(@, d)]
  BY DEF Measure
<1>2. pcrs \in [Pcrs -> PcrValues]
  BY DEF PlatformInv
<1> DEFINE w == [pcrs[q] EXCEPT !.ext = Append(@, d)]
<1>3. w \in PcrValues /\ Precedes(pcrs[q], w)
  BY <1>2, Extended
<1>4. pcrs' = [pcrs EXCEPT ![q] = w]
  BY <1>1, <1>2
<1> HIDE DEF w
<1>5. \A p \in Pcrs : pcrs'[p] \in PcrValues /\ Precedes(pcrs[p], pcrs'[p])
  BY <1>2, <1>3, <1>4, PrecedesItself
<1> QED BY <1>2, <1>4, <1>5, PrecedesTransitive

LEMMA MeasureKeeps ==
  ASSUME IInv, Measure
  PROVE  IInv'
<1> USE DEF IInv
<1>1. /\ pcrs' \in [Pcrs -> PcrValues]
      /\ \A p \in Pcrs, u \in PcrValues : Precedes(u, pcrs[p]) => Precedes(u, pcrs'[p])
  BY Grown
<1>2. UNCHANGED <<log, boot, att, blob, ver>>
  BY DEF Measure
<1>3. PlatformInv'
  BY <1>1, <1>2 DEF PlatformInv, Measure, Events
<1>4. AttesterInv'
  BY <1>1, <1>2 DEF AttesterInv, Before
<1>5. BlobInv'
  BY <1>1, <1>2 DEF BlobInv
<1>6. VerifierInv'
  BY <1>1, <1>2 DEF VerifierInv, Before, ReplayMatches
<1> QED BY <1>3, <1>4, <1>5, <1>6

LEMMA LoggingKeeps ==
  ASSUME IInv, LogMeasurement \/ LogNoAction
  PROVE  IInv'
<1> USE DEF IInv
<1>1. UNCHANGED <<pcrs, boot, att, blob, ver>>
  BY DEF LogMeasurement, LogNoAction
<1>2. PlatformInv'
  <2>1. PICK e \in Events : log' = Append(log, e)
    <3>1. CASE LogMeasurement
      BY <3>1 DEF LogMeasurement, PlatformInv
    <3>2. CASE LogNoAction
      BY <3>2 DEF LogNoAction, Events
    <3> QED BY <3>1, <3>2
  <2>2. /\ Len(log) < MaxEvents /\ half' = NoEvent
        /\ quiet' \subseteq {"att", "made", "since"}
    BY DEF LogMeasurement, LogNoAction, PlatformInv
  <2>3. log \in Seq(Events) /\ MaxEvents \in Nat
    BY AttestationAssumption DEF PlatformInv
  <2>4. log' \in Seq(Events) /\ Len(log') <= MaxEvents
    BY <2>1, <2>2, <2>3
  <2> QED BY <1>1, <2>2, <2>4, NoEventType DEF PlatformInv
<1>3. AttesterInv'
  BY <1>1 DEF AttesterInv
<1>4. BlobInv'
  BY <1>1 DEF BlobInv
<1>5. VerifierInv'
  BY <1>1 DEF VerifierInv, ReplayMatches
<1> QED BY <1>2, <1>3, <1>4, <1>5

(* After a reboot no attestation is of this boot, and no call is going on. *)
LEMMA RebootKeeps ==
  ASSUME IInv, Reboot
  PROVE  IInv'
<1> USE DEF IInv
<1>1. PICK locality \in Localities :
        pcrs' = StartValue(locality) /\ log' = StartLog(locality)
  BY DEF Reboot
<1>2. PlatformInv'
  BY <1>1, Starts, NoEventType, AttestationAssumption DEF Reboot, PlatformInv
<1>3. AttesterInv'
  BY AttestationAssumption DEF Reboot, AttesterInv, NoCall, NoQuote
<1>4. BlobInv'
  BY DEF Reboot, BlobInv, PlatformInv
<1>5. VerifierInv'
  BY DEF Reboot, VerifierInv, NoCheck
<1> QED BY <1>2, <1>3, <1>4, <1>5

-----------------------------------------------------------------------------
(* The attester's steps.                                                   *)

LEMMA CallKeeps ==
  ASSUME IInv, Generate \/ GetLogSize \/ GetLog \/ CallAgain \/ GenerateQuote
  PROVE  IInv'
<1> USE DEF IInv
<1>1. UNCHANGED <<pcrs, log, half, boot, blob, ver>>
  BY DEF Generate, GetLogSize, GetLog, CallAgain, GenerateQuote
<1>2. PlatformInv'
  BY <1>1 DEF PlatformInv, Generate, GetLogSize, GetLog, CallAgain, GenerateQuote
<1>3. AttesterInv'
  <2>1. CASE Generate
    <3>1. PICK signed \in BOOLEAN, mask \in Masks :
            att' = [NoCall EXCEPT !.at = "called", !.signed = signed, !.mask = mask,
                                  !.nonce = ver.nonce]
      BY <2>1 DEF Generate
    <3>2. mask \subseteq Pcrs /\ Blocks \in Nat \ {0}
      BY AttestationAssumption
    <3>3. /\ att'.at = "called" /\ att'.mask = mask /\ att'.quote = NoQuote
          /\ att'.block = 1 /\ att'.pcrs = << >> /\ DOMAIN att' = DOMAIN NoCall
      BY <3>1 DEF NoCall
    <3> QED BY <3>2, <3>3 DEF AttesterInv, NoQuote
  <2>2. CASE GetLogSize
    BY <2>2 DEF GetLogSize, AttesterInv, NoCall
  <2>3. CASE GetLog
    <3>1. CASE att' = NoCall
      BY <3>1, AttestationAssumption DEF AttesterInv, NoCall, NoQuote
    <3>2. CASE \E n : att' = [att EXCEPT !.at = "resized", !.cbOutput = n]
      BY <2>3, <3>2 DEF GetLog, AttesterInv, NoCall
    <3>3. CASE att' = [att EXCEPT !.at = "reading", !.log = log]
      <4>1. /\ att.at = "sized" /\ att.block = 1 /\ att.pcrs = << >>
            /\ DOMAIN att = DOMAIN NoCall
            /\ att.mask \subseteq Pcrs /\ att.quote.mask \subseteq Pcrs
        BY <2>3 DEF GetLog, AttesterInv
      <4>2. /\ att'.at = "reading" /\ att'.block = 1 /\ att'.pcrs = << >>
            /\ att'.mask = att.mask /\ att'.quote = att.quote
            /\ DOMAIN att' = DOMAIN NoCall
        BY <3>3, <4>1 DEF NoCall
      <4>3. Before(1) = {} /\ DOMAIN << >> = {} /\ Blocks \in Nat \ {0}
        BY AllRead, AttestationAssumption
      <4>4. Before(1)' = {}
        BY <4>3 DEF Before
      <4> QED BY <4>1, <4>2, <4>3, <4>4 DEF AttesterInv
    <3> QED BY <2>3, <3>1, <3>2, <3>3 DEF GetLog
  <2>4. CASE CallAgain
    BY <2>4 DEF CallAgain, AttesterInv, NoCall
  <2>5. CASE GenerateQuote
    BY <1>1, <2>5 DEF GenerateQuote, AttesterInv, NoCall
  <2> QED BY <2>1, <2>2, <2>3, <2>4, <2>5
<1>4. BlobInv'
  BY <1>1 DEF BlobInv
<1>5. VerifierInv'
  BY <1>1 DEF VerifierInv, ReplayMatches
<1> QED BY <1>2, <1>3, <1>4, <1>5

LEMMA ReadPcrsKeeps ==
  ASSUME IInv, ReadPcrs
  PROVE  IInv'
<1> USE DEF IInv
<1> DEFINE n == att.block
<1>1. UNCHANGED <<pcrs, log, half, boot, blob, ver, quiet>>
  BY DEF ReadPcrs
<1>2. n \in 1 .. Blocks /\ DOMAIN att.pcrs = Before(n) /\ att.at = "reading"
      /\ DOMAIN att = DOMAIN NoCall
  BY DEF ReadPcrs, AttesterInv
<1>3. /\ att'.pcrs = Read(att.pcrs, n) /\ att'.block = n + 1
      /\ att'.at = IF n < Blocks THEN "reading"
                   ELSE IF att.signed THEN "quoting" ELSE "copying"
      /\ att'.mask = att.mask /\ att'.quote = att.quote /\ DOMAIN att' = DOMAIN NoCall
  BY <1>2 DEF ReadPcrs, NoCall
<1>4. /\ DOMAIN Read(att.pcrs, n) = Before(n + 1)
      /\ \A p \in Before(n) : Read(att.pcrs, n)[p] = att.pcrs[p]
      /\ \A p \in Before(n + 1) \ Before(n) : Read(att.pcrs, n)[p] = pcrs[p]
  BY <1>2, ReadOneMore
<1>5. \A p \in Before(n + 1) : /\ Read(att.pcrs, n)[p] \in PcrValues
                               /\ Precedes(Read(att.pcrs, n)[p], pcrs[p])
  <2>1. \A p \in Before(n) : att.pcrs[p] \in PcrValues /\ Precedes(att.pcrs[p], pcrs[p])
    BY <1>2 DEF AttesterInv
  <2>2. \A p \in Before(n + 1) : pcrs[p] \in PcrValues /\ Precedes(pcrs[p], pcrs[p])
    BY PrecedesItself DEF PlatformInv, Before
  <2> QED BY <1>4, <2>1, <2>2
<1>6. AttesterInv'
  <2> HIDE DEF n
  <2>1. att.mask \subseteq Pcrs /\ att.quote.mask \subseteq Pcrs
    BY DEF AttesterInv
  <2>2. Blocks \in Nat
    BY AttestationAssumption
  <2>3. att'.at = "reading" => n + 1 \in 1 .. Blocks
    BY <1>2, <1>3, <2>2
  <2>4. att'.at \in {"quoting", "copying"} => n + 1 = Blocks + 1
    BY <1>2, <1>3, <2>2
  <2>5. att'.at \in {"reading", "quoting", "copying"} /\ n + 1 \in 1 .. Blocks + 1
    BY <1>2, <1>3, <2>2
  <2> QED BY <1>1, <1>3, <1>4, <1>5, <2>1, <2>3, <2>4, <2>5 DEF AttesterInv, Before
<1>7. PlatformInv' /\ BlobInv' /\ VerifierInv'
  BY <1>1 DEF PlatformInv, BlobInv, VerifierInv, ReplayMatches
<1> QED BY <1>6, <1>7

LEMMA FinishKeeps ==
  ASSUME IInv, Finish
  PROVE  IInv'
<1> USE DEF IInv
<1>1. UNCHANGED <<pcrs, log, half, boot>> /\ ver.at = "idle" /\ att.at = "copying"
      /\ ver' = [NoCheck EXCEPT !.nonce = ver.nonce]
  BY DEF Finish
<1>2. PlatformInv'
  BY <1>1 DEF PlatformInv, Finish
<1>3. AttesterInv'
  BY AttestationAssumption DEF Finish, AttesterInv, NoCall, NoQuote
<1>4. BlobInv'
  <2>1. \A p \in Pcrs : att.pcrs[p] \in PcrValues /\ Precedes(att.pcrs[p], pcrs[p])
    BY <1>1, AllRead DEF AttesterInv
  <2>2. blob'.pcrs = att.pcrs /\ blob'.quote = att.quote /\ blob'.boot = boot
    BY DEF Finish
  <2> QED BY <1>1, <2>1, <2>2 DEF BlobInv, AttesterInv, PlatformInv
<1>5. VerifierInv'
  BY <1>1 DEF VerifierInv, NoCheck
<1> QED BY <1>2, <1>3, <1>4, <1>5

-----------------------------------------------------------------------------
(* The verifier's steps.                                                   *)

LEMMA JudgeKeeps ==
  ASSUME IInv, Challenge \/ ValidateSigned \/ CompareLocal
  PROVE  IInv'
<1> USE DEF IInv
<1>1. UNCHANGED <<pcrs, log, half, boot, att, blob, quiet>>
  BY DEF Challenge, ValidateSigned, CompareLocal
<1>2. PlatformInv' /\ AttesterInv' /\ BlobInv'
  BY <1>1 DEF PlatformInv, AttesterInv, BlobInv
<1>3. VerifierInv'
  <2>1. CASE Challenge
    BY <2>1, AttestationAssumption DEF Challenge, VerifierInv, NoCheck
  <2>2. CASE ValidateSigned
    BY <2>2 DEF ValidateSigned, VerifierInv, NoCheck
  <2>3. CASE CompareLocal
    BY <2>3 DEF CompareLocal, VerifierInv, NoCheck
  <2> QED BY <2>1, <2>2, <2>3
<1> QED BY <1>2, <1>3

LEMMA ValidateLocalKeeps ==
  ASSUME IInv, ValidateLocal
  PROVE  IInv'
<1> USE DEF IInv
<1>1. UNCHANGED <<pcrs, log, half, boot, att, blob, quiet>>
  BY DEF ValidateLocal
<1>2. PlatformInv' /\ AttesterInv' /\ BlobInv'
  BY <1>1 DEF PlatformInv, AttesterInv, BlobInv
<1> DEFINE Rejected == [NoCheck EXCEPT !.nonce = ver.nonce, !.local = TRUE, !.result = "rejected"]
<1>3. CASE ver' = Rejected
  BY <1>2, <1>3 DEF ValidateLocal, VerifierInv, NoCheck
<1>4. CASE ver' # Rejected
  <2>1. /\ ReplayMatches(LogMask(blob.log))
        /\ ver' = [NoCheck EXCEPT !.nonce = ver.nonce, !.local = TRUE, !.at = "reading",
                                  !.began = pcrs]
    BY <1>4 DEF ValidateLocal
  <2>2. /\ ver'.at = "reading" /\ ver'.began = pcrs /\ ver'.current = << >> /\ ver'.local
        /\ ver'.block = 1 /\ ver'.nonce = ver.nonce /\ DOMAIN ver' = DOMAIN NoCheck
    BY <2>1 DEF VerifierInv, NoCheck
  <2>3. ReplayMatches(LogMask(blob.log))'
    BY <1>1, <2>1 DEF ReplayMatches
  <2>4. \A p \in Pcrs : pcrs[p] \in PcrValues /\ Precedes(pcrs[p], pcrs[p])
    BY PrecedesItself DEF PlatformInv
  <2>5. Before(1) = {} /\ DOMAIN << >> = {} /\ Blocks \in Nat \ {0}
    BY AllRead, AttestationAssumption
  <2>6. /\ ver'.nonce \in 0 .. MaxNonces
        /\ DOMAIN ver'.current = Before(1)' /\ Before(1)' = {}
    BY <2>2, <2>5 DEF VerifierInv, Before
  <2>7. blob'.boot = boot' => \A p \in Pcrs : /\ blob'.pcrs[p] \in PcrValues
                                              /\ Precedes(blob'.pcrs[p], ver'.began[p])
    BY <1>1, <2>2 DEF BlobInv
  <2>8. VerifierInv'
    BY <1>1, <2>2, <2>3, <2>4, <2>5, <2>6, <2>7 DEF VerifierInv
  <2> QED BY <1>2, <2>8
<1> QED BY <1>3, <1>4

LEMMA ReadCurrentKeeps ==
  ASSUME IInv, ReadCurrent
  PROVE  IInv'
<1> USE DEF IInv
<1> DEFINE n == ver.block
<1>1. UNCHANGED <<pcrs, log, half, boot, att, blob, quiet>>
  BY DEF ReadCurrent
<1>2. n \in 1 .. Blocks /\ DOMAIN ver.current = Before(n) /\ ver.at = "reading"
      /\ DOMAIN ver = DOMAIN NoCheck
  BY DEF ReadCurrent, VerifierInv
<1>3. /\ ver'.current = Read(ver.current, n) /\ ver'.block = n + 1
      /\ ver'.at = IF n < Blocks THEN "reading" ELSE "comparing"
      /\ ver'.began = ver.began /\ ver'.nonce = ver.nonce /\ DOMAIN ver' = DOMAIN NoCheck
      /\ ver'.local = ver.local
  BY <1>2 DEF ReadCurrent, NoCheck
<1>4. /\ DOMAIN Read(ver.current, n) = Before(n + 1)
      /\ \A p \in Before(n) : Read(ver.current, n)[p] = ver.current[p]
      /\ \A p \in Before(n + 1) \ Before(n) : Read(ver.current, n)[p] = pcrs[p]
  BY <1>2, ReadOneMore
<1>5. \A p \in Before(n + 1) : /\ Read(ver.current, n)[p] \in PcrValues
                               /\ Precedes(ver.began[p], Read(ver.current, n)[p])
  <2>1. \A p \in Before(n) : /\ ver.current[p] \in PcrValues
                             /\ Precedes(ver.began[p], ver.current[p])
    BY <1>2 DEF VerifierInv
  <2>2. \A p \in Before(n + 1) : pcrs[p] \in PcrValues /\ Precedes(ver.began[p], pcrs[p])
    BY <1>2 DEF PlatformInv, VerifierInv, Before
  <2> QED BY <1>4, <2>1, <2>2
<1>6. VerifierInv'
  <2> HIDE DEF n
  <2>1. Blocks \in Nat
    BY AttestationAssumption
  <2>2. /\ ver'.at = "reading" => n + 1 <= Blocks
        /\ ver'.at = "comparing" => n + 1 = Blocks + 1
        /\ ver'.at \in {"reading", "comparing"} /\ n + 1 \in 1 .. Blocks + 1
    BY <1>2, <1>3, <2>1
  <2>3. /\ ver.nonce \in 0 .. MaxNonces
        /\ ver.local /\ ReplayMatches(LogMask(blob.log))
        /\ \A p \in Pcrs : ver.began[p] \in PcrValues /\ Precedes(ver.began[p], pcrs[p])
        /\ blob.boot = boot => \A p \in Pcrs : /\ blob.pcrs[p] \in PcrValues
                                               /\ Precedes(blob.pcrs[p], ver.began[p])
    BY <1>2 DEF VerifierInv
  <2>4. ReplayMatches(LogMask(blob.log))'
    BY <1>1, <2>3 DEF ReplayMatches
  <2> QED BY <1>1, <1>3, <1>4, <1>5, <2>2, <2>3, <2>4 DEF VerifierInv, Before
<1>7. PlatformInv' /\ AttesterInv' /\ BlobInv'
  BY <1>1 DEF PlatformInv, AttesterInv, BlobInv
<1> QED BY <1>6, <1>7

-----------------------------------------------------------------------------
LEMMA StutterKeeps ==
  ASSUME IInv, UNCHANGED vars
  PROVE  IInv'
BY DEF IInv, PlatformInv, AttesterInv, BlobInv, VerifierInv, ReplayMatches, vars

LEMMA NextKeeps == IInv /\ [Next]_vars => IInv'
BY MeasureKeeps, LoggingKeeps, RebootKeeps, CallKeeps, ReadPcrsKeeps, FinishKeeps,
   JudgeKeeps, ValidateLocalKeeps, ReadCurrentKeeps, StutterKeeps
   DEF Next, Platform, Attester, Verifier

LEMMA Invariance == Spec => []IInv
BY InitKeeps, NextKeeps, PTL DEF Spec

(* Every call stands at a step of the code, and what it has collected is   *)
(* complete when it is used: all PCRs when the quote is asked for and when *)
(* the verifier compares.                                                  *)
THEOREM PcpTypeCorrect == Spec => []TypeOK
<1>1. IInv => TypeOK
  <2> SUFFICES ASSUME IInv PROVE TypeOK
    OBVIOUS
  <2> USE DEF IInv
  <2>1. \A p \in Pcrs : pcrs[p].ext \in Seq(Digests)
    BY DEF PlatformInv, PcrValues
  <2>2. att.at \in {"quoting", "copying"} => DOMAIN att.pcrs = Pcrs
    BY AllRead DEF AttesterInv
  <2>3. ver.at = "comparing" => DOMAIN ver.current = Pcrs
    BY AllRead DEF VerifierInv
  <2> QED BY <2>1, <2>2, <2>3 DEF TypeOK, PlatformInv, AttesterInv, VerifierInv
<1> QED BY <1>1, Invariance, PTL

(* An accepted attestation describes one instant: with an AIK that of a    *)
(* quote, made for this challenge if a nonce is passed; without, the       *)
(* instant the validation on this platform began.                          *)
THEOREM AcceptedIsTrue == Spec => AcceptedMeansTrue
<1> DEFINE A == Judges("accepted") =>
                  LET soft == SoftPcrs(blob.log)
                  IN  IF ver'.local
                      THEN blob.boot = boot => \A p \in LogMask(blob.log) : soft[p] = ver.began[p]
                      ELSE /\ blob.signed
                           /\ ver'.nonced => blob.quote.nonce = ver.nonce
                           /\ \A p \in blob.quote.mask : soft[p] = blob.quote.values[p]
<1>1. IInv /\ [Next]_vars => A
  <2> SUFFICES ASSUME IInv, [Next]_vars, Judges("accepted") PROVE A
    OBVIOUS
  <2>1. DOMAIN ver = DOMAIN NoCheck
    BY DEF IInv, VerifierInv
  <2>2. ValidateSigned \/ CompareLocal
    <3>1. ver' # ver /\ ver'.at = "idle" /\ ver'.result = "accepted"
      BY DEF Judges
    <3>2. ~UNCHANGED vars /\ ~(Measure \/ LogMeasurement \/ LogNoAction) /\ ~Attester
      BY <2>1, <3>1 DEF vars, Measure, LogMeasurement, LogNoAction, Attester, Generate, GetLogSize,
                  GetLog, CallAgain, ReadPcrs, GenerateQuote, Finish, NoCheck
    <3>3. ~Reboot /\ ~Challenge
      BY <3>1 DEF Reboot, Challenge, NoCheck
    <3>4. ~ValidateLocal
      BY <2>1, <3>1 DEF ValidateLocal, NoCheck
    <3>5. ~ReadCurrent
      BY <2>1, <3>1 DEF ReadCurrent, NoCheck
    <3> QED BY <3>2, <3>3, <3>4, <3>5 DEF Next, Platform, Verifier
  <2>3. CASE ValidateSigned
    <3>1. /\ ValidateQuote(ver'.nonced) /\ ReplayMatches(blob.quote.mask)
          /\ blob.signed /\ ~ver'.local
      <4>1. PICK nonced \in BOOLEAN :
              ver' = [NoCheck EXCEPT !.nonce = ver.nonce, !.nonced = nonced,
                                     !.result = IF blob.signed /\ ValidateQuote(nonced)
                                                   /\ ReplayMatches(blob.quote.mask)
                                                THEN "accepted" ELSE "rejected"]
        BY <2>3 DEF ValidateSigned
      <4> QED BY <2>1, <4>1 DEF Judges, NoCheck
    <3>2. \A p \in blob.quote.mask : blob.quote.values[p] = blob.pcrs[p]
      BY <3>1 DEF ValidateQuote, Restrict
    <3>3. blob.quote.mask \subseteq Pcrs
      BY DEF IInv, BlobInv
    <3> QED BY <3>1, <3>2, <3>3 DEF ValidateQuote, ReplayMatches
  <2>4. CASE CompareLocal
    <3>0. ver'.local
      BY <2>1, <2>4 DEF CompareLocal, IInv, VerifierInv, NoCheck
    <3> SUFFICES ASSUME blob.boot = boot, NEW p \in LogMask(blob.log)
                 PROVE  SoftPcrs(blob.log)[p] = ver.began[p]
      BY <3>0
    <3>1. blob.pcrs[p] = ver.current[p]
      BY <2>1, <2>4 DEF CompareLocal, Judges, NoCheck
    <3>2. p \in Pcrs
      BY DEF LogMask
    <3>3. SoftPcrs(blob.log)[p] = blob.pcrs[p]
      BY <2>4, <3>2 DEF CompareLocal, IInv, VerifierInv, ReplayMatches
    <3>4. /\ ver.began[p] \in PcrValues /\ blob.pcrs[p] \in PcrValues
          /\ Precedes(blob.pcrs[p], ver.began[p]) /\ Precedes(ver.began[p], ver.current[p])
      BY <2>4, <3>2, AllRead DEF CompareLocal, IInv, VerifierInv
    <3> QED BY <3>1, <3>3, <3>4, Sandwich
  <2> QED BY <2>2, <2>3, <2>4
<1>2. IInv /\ [Next]_vars => [A]_vars
  BY <1>1
<1> QED BY <1>2, Invariance, PTL DEF Spec, AcceptedMeansTrue

-----------------------------------------------------------------------------
(* Induction on the length of a sequence, with a set in place of a         *)
(* predicate: a set that contains the empty sequence, and an extended      *)
(* sequence with the sequence, contains all.                               *)
LEMMA BySequences ==
  ASSUME NEW S, NEW X, <<>> \in X,
         \A s \in Seq(S), e \in S : s \in X => Append(s, e) \in X
  PROVE  \A s \in Seq(S) : s \in X
<1> SUFFICES ASSUME NEW s \in Seq(S), s \notin X PROVE FALSE
  OBVIOUS
<1> DEFINE NatLess == {p \in Nat \X Nat : p[1] < p[2]}
           T == {n \in Nat : \E t \in Seq(S) \ X : Len(t) = n}
<1>1. IsWellFoundedOn(NatLess, Nat)
  BY NatLessThanWellFounded DEF OpToRel
<1>2. T \subseteq Nat /\ Len(s) \in T
  OBVIOUS
<1>3. PICK m \in T : \A n \in T : ~ (<<n, m>> \in NatLess)
  <2> HIDE DEF T, NatLess
  <2> QED BY <1>1, <1>2, WFMin
<1>4. PICK t \in Seq(S) \ X : Len(t) = m
  OBVIOUS
<1>5. PICK r \in Seq(S), e \in S : t = Append(r, e)
  BY SequenceEmptyOrAppend
<1>6. Len(r) \in Nat /\ m = Len(r) + 1 /\ r \notin X
  BY <1>4, <1>5
<1>7. Len(r) \in T
  BY <1>6
<1>8. <<Len(r), m>> \in NatLess
  BY <1>6
<1> QED BY <1>3, <1>7, <1>8

-----------------------------------------------------------------------------
(* The replay of a log.                                                    *)

(* The recursive function in SoftPcrs, as an equation that g solves ...    *)
Replays(l, g) ==
  g = [i \in 0 .. Len(l) |-> IF i = 0 THEN ZeroedPcrs ELSE Replay(g[i - 1], l[i])]

(* ... and the same as an equation for each element.                       *)
LEMMA ReplaysAt ==
  ASSUME NEW l, NEW g, Replays(l, g)
  PROVE  \A i \in 0 .. Len(l) : g[i] = IF i = 0 THEN ZeroedPcrs ELSE Replay(g[i - 1], l[i])
<1>1. PICK f : f = [i \in 0 .. Len(l) |-> IF i = 0 THEN ZeroedPcrs ELSE Replay(g[i - 1], l[i])]
  OBVIOUS
<1>2. \A i \in 0 .. Len(l) : f[i] = IF i = 0 THEN ZeroedPcrs ELSE Replay(g[i - 1], l[i])
  BY <1>1
<1> QED BY <1>1, <1>2 DEF Replays

(* A solution for a log contains one for the log without its last event.   *)
LEMMA ReplaysBefore ==
  ASSUME NEW l \in Seq(Events), NEW e \in Events, NEW h, Replays(Append(l, e), h)
  PROVE  /\ Replays(l, [i \in 0 .. Len(l) |-> h[i]])
         /\ h[Len(l) + 1] = Replay(h[Len(l)], e)
<1> DEFINE n == Len(l)
           g == [i \in 0 .. n |-> h[i]]
<1>1. n \in Nat /\ Len(Append(l, e)) = n + 1 /\ Append(l, e)[n + 1] = e
      /\ \A i \in 1 .. n : Append(l, e)[i] = l[i]
  BY AppendProperties
<1>2. \A i \in 0 .. n + 1 :
        h[i] = IF i = 0 THEN ZeroedPcrs ELSE Replay(h[i - 1], Append(l, e)[i])
  <2>1. \A i \in 0 .. Len(Append(l, e)) :
          h[i] = IF i = 0 THEN ZeroedPcrs ELSE Replay(h[i - 1], Append(l, e)[i])
    BY ReplaysAt
  <2> QED BY <1>1, <2>1
<1> HIDE DEF n
<1>3. \A i \in 0 .. n : i # 0 => i - 1 \in 0 .. n /\ i \in 1 .. n /\ i \in 0 .. n + 1
  BY <1>1
<1>4. \A i \in 0 .. n : h[i] = IF i = 0 THEN ZeroedPcrs ELSE Replay(h[i - 1], l[i])
  BY <1>1, <1>2, <1>3
<1>5. \A i \in 0 .. n : i # 0 => g[i - 1] = h[i - 1]
  BY <1>3
<1>6. g = [i \in 0 .. n |-> IF i = 0 THEN ZeroedPcrs ELSE Replay(g[i - 1], l[i])]
  BY <1>4, <1>5
<1>7. h[n + 1] = Replay(h[n], e)
  <2>1. n + 1 \in 0 .. n + 1 /\ n + 1 # 0 /\ (n + 1) - 1 = n
    BY <1>1
  <2> QED BY <1>1, <1>2, <2>1
<1> QED BY <1>6, <1>7 DEF n, Replays

(* The equation has exactly one solution.                                  *)
LEMMA ReplaysExists ==
  \A l \in Seq(Events) : \E g : Replays(l, g) /\ \A h : Replays(l, h) => h = g
<1> DEFINE X == {l \in Seq(Events) : \E g : Replays(l, g) /\ \A h : Replays(l, h) => h = g}
<1>1. <<>> \in X
  <2>1. PICK g : g = [i \in 0 .. 0 |-> ZeroedPcrs]
    OBVIOUS
  <2>2. ASSUME NEW h PROVE Replays(<<>>, h) <=> h = g
    <3>1. [i \in 0 .. 0 |-> IF i = 0 THEN ZeroedPcrs ELSE Replay(h[i - 1], <<>>[i])]
            = [i \in 0 .. 0 |-> ZeroedPcrs]
      BY \A i \in 0 .. 0 : i = 0
    <3>2. Len(<<>>) = 0
      OBVIOUS
    <3> QED BY <2>1, <3>1, <3>2 DEF Replays
  <2> QED BY <2>2
<1>2. ASSUME NEW l \in Seq(Events), NEW e \in Events, l \in X PROVE Append(l, e) \in X
  <2> DEFINE n == Len(l)
  <2>1. PICK g : Replays(l, g) /\ \A h : Replays(l, h) => h = g
    BY <1>2
  <2>2. n \in Nat /\ Len(Append(l, e)) = n + 1 /\ Append(l, e)[n + 1] = e
        /\ \A i \in 1 .. n : Append(l, e)[i] = l[i]
    BY AppendProperties
  <2> HIDE DEF n
  <2>3. PICK f : f = [i \in 0 .. n + 1 |-> IF i = n + 1 THEN Replay(g[n], e) ELSE g[i]]
    OBVIOUS
  <2>4. Replays(Append(l, e), f)
    <3>1. \A i \in 0 .. n : g[i] = IF i = 0 THEN ZeroedPcrs ELSE Replay(g[i - 1], l[i])
      BY <2>1, ReplaysAt DEF n
    <3>2. \A i \in 0 .. n : f[i] = g[i]
      BY <2>2, <2>3
    <3>3. \A i \in 0 .. n + 1 : i # 0 => f[i - 1] = g[i - 1]
      BY <2>2, <3>2
    <3>4. \A i \in 0 .. n + 1 : i = n + 1 \/ (i \in 0 .. n /\ (i # 0 => i \in 1 .. n))
      BY <2>2
    <3>5. n + 1 # 0 /\ (n + 1) - 1 = n /\ n + 1 \in 0 .. n + 1
      BY <2>2
    <3>6. ASSUME NEW i \in 0 .. n + 1
          PROVE  f[i] = IF i = 0 THEN ZeroedPcrs ELSE Replay(f[i - 1], Append(l, e)[i])
      <4>1. CASE i = n + 1
        BY <2>2, <2>3, <3>3, <3>5, <4>1
      <4>2. CASE i # n + 1
        BY <2>2, <3>1, <3>2, <3>3, <3>4, <4>2
      <4> QED BY <4>1, <4>2
    <3>7. f = [i \in 0 .. n + 1 |->
                IF i = 0 THEN ZeroedPcrs ELSE Replay(f[i - 1], Append(l, e)[i])]
      BY <2>3, <3>6
    <3> QED BY <2>2, <3>7 DEF Replays
  <2>5. ASSUME NEW h, Replays(Append(l, e), h) PROVE h = f
    <3>1. g = [i \in 0 .. n |-> h[i]] /\ h[n + 1] = Replay(h[n], e)
      <4>1. /\ Replays(l, [i \in 0 .. Len(l) |-> h[i]])
            /\ h[Len(l) + 1] = Replay(h[Len(l)], e)
        BY <2>5, ReplaysBefore
      <4>2. [i \in 0 .. Len(l) |-> h[i]] = g
        BY <2>1, <4>1
      <4> QED BY <4>1, <4>2 DEF n
    <3>2. \A i \in 0 .. n : h[i] = g[i]
      BY <3>1
    <3>3. h = [i \in 0 .. n + 1 |->
                IF i = 0 THEN ZeroedPcrs ELSE Replay(h[i - 1], Append(l, e)[i])]
      BY <2>2, <2>5 DEF Replays
    <3>4. ASSUME NEW i \in 0 .. n + 1 PROVE h[i] = f[i]
      <4>1. n \in 0 .. n /\ (i # n + 1 => i \in 0 .. n)
        BY <2>2
      <4> QED BY <2>3, <3>1, <3>2, <4>1
    <3>5. PICK k : k = [i \in 0 .. n + 1 |->
                IF i = 0 THEN ZeroedPcrs ELSE Replay(h[i - 1], Append(l, e)[i])]
      OBVIOUS
    <3>6. k = h
      BY <3>3, <3>5
    <3>7. k = [i \in 0 .. n + 1 |-> k[i]]
      BY <3>5
    <3>8. h = [i \in 0 .. n + 1 |-> h[i]]
      BY <3>6, <3>7
    <3>9. f = [i \in 0 .. n + 1 |-> f[i]]
      BY <2>3
    <3> QED BY <3>4, <3>8, <3>9
  <2> QED BY <2>4, <2>5, AppendProperties
<1>3. \A l \in Seq(Events) : l \in X
  <2> HIDE DEF X
  <2> QED BY <1>1, <1>2, BySequences
<1> QED BY <1>3

(* Replaying is a fold: one event more, one step more.                     *)
LEMMA SoftPcrsSteps ==
  /\ SoftPcrs(<<>>) = ZeroedPcrs
  /\ \A l \in Seq(Events), e \in Events : SoftPcrs(Append(l, e)) = Replay(SoftPcrs(l), e)
<1> DEFINE G(l) == CHOOSE g : Replays(l, g)
<1>1. \A l : SoftPcrs(l) = G(l)[Len(l)]
  BY DEF SoftPcrs, Replays
<1>2. \A l \in Seq(Events) : Replays(l, G(l)) /\ \A h : Replays(l, h) => h = G(l)
  BY ReplaysExists
<1> HIDE DEF G
<1>3. SoftPcrs(<<>>) = ZeroedPcrs
  <2>1. <<>> \in Seq(Events) /\ Len(<<>>) = 0 /\ 0 \in 0 .. 0
    OBVIOUS
  <2>2. G(<<>>)[0] = ZeroedPcrs
    BY <1>2, <2>1, ReplaysAt
  <2> QED BY <1>1, <2>1, <2>2
<1>4. ASSUME NEW l \in Seq(Events), NEW e \in Events
      PROVE  SoftPcrs(Append(l, e)) = Replay(SoftPcrs(l), e)
  <2> DEFINE n == Len(l)
             h == G(Append(l, e))
  <2>1. n \in Nat /\ Append(l, e) \in Seq(Events) /\ Len(Append(l, e)) = n + 1
    BY AppendProperties
  <2>2. Replays(Append(l, e), h)
    BY <1>2, <2>1
  <2> HIDE DEF h
  <2>3. Replays(l, [i \in 0 .. n |-> h[i]]) /\ h[n + 1] = Replay(h[n], e)
    BY <2>2, ReplaysBefore
  <2>4. G(l) = [i \in 0 .. n |-> h[i]]
    BY <1>2, <2>3
  <2>5. n \in 0 .. n
    BY <2>1
  <2>6. G(l)[n] = h[n]
    BY <2>4, <2>5
  <2>7. SoftPcrs(l) = h[n]
    BY <1>1, <2>6
  <2>8. SoftPcrs(Append(l, e)) = h[n + 1]
    BY <1>1, <2>1 DEF h
  <2> QED BY <2>3, <2>7, <2>8
<1> QED BY <1>3, <1>4

-----------------------------------------------------------------------------
(* The filtering of a log, in the same way.                                *)
Keeps(l, mask, g) ==
  g = [i \in 0 .. Len(l) |-> IF i = 0 THEN <<>> ELSE Keep(g[i - 1], l[i], mask)]

(* The equation for each element.                                          *)
LEMMA KeepsAt ==
  ASSUME NEW mask, NEW l, NEW g, Keeps(l, mask, g)
  PROVE  \A i \in 0 .. Len(l) : g[i] = IF i = 0 THEN <<>> ELSE Keep(g[i - 1], l[i], mask)
<1>1. PICK f : f = [i \in 0 .. Len(l) |-> IF i = 0 THEN <<>> ELSE Keep(g[i - 1], l[i], mask)]
  OBVIOUS
<1>2. \A i \in 0 .. Len(l) : f[i] = IF i = 0 THEN <<>> ELSE Keep(g[i - 1], l[i], mask)
  BY <1>1
<1> QED BY <1>1, <1>2 DEF Keeps

(* A solution for a log contains one for the log without its last event.   *)
LEMMA KeepsBefore ==
  ASSUME NEW mask, NEW l \in Seq(Events), NEW e \in Events, NEW h,
         Keeps(Append(l, e), mask, h)
  PROVE  /\ Keeps(l, mask, [i \in 0 .. Len(l) |-> h[i]])
         /\ h[Len(l) + 1] = Keep(h[Len(l)], e, mask)
<1> DEFINE n == Len(l)
           g == [i \in 0 .. n |-> h[i]]
<1>1. n \in Nat /\ Len(Append(l, e)) = n + 1 /\ Append(l, e)[n + 1] = e
      /\ \A i \in 1 .. n : Append(l, e)[i] = l[i]
  BY AppendProperties
<1>2. \A i \in 0 .. n + 1 :
        h[i] = IF i = 0 THEN <<>> ELSE Keep(h[i - 1], Append(l, e)[i], mask)
  <2>1. \A i \in 0 .. Len(Append(l, e)) :
          h[i] = IF i = 0 THEN <<>> ELSE Keep(h[i - 1], Append(l, e)[i], mask)
    BY KeepsAt
  <2> QED BY <1>1, <2>1
<1> HIDE DEF n
<1>3. \A i \in 0 .. n : i # 0 => i - 1 \in 0 .. n /\ i \in 1 .. n /\ i \in 0 .. n + 1
  BY <1>1
<1>4. \A i \in 0 .. n : h[i] = IF i = 0 THEN <<>> ELSE Keep(h[i - 1], l[i], mask)
  BY <1>1, <1>2, <1>3
<1>5. \A i \in 0 .. n : i # 0 => g[i - 1] = h[i - 1]
  BY <1>3
<1>6. g = [i \in 0 .. n |-> IF i = 0 THEN <<>> ELSE Keep(g[i - 1], l[i], mask)]
  BY <1>4, <1>5
<1>7. h[n + 1] = Keep(h[n], e, mask)
  <2>1. n + 1 \in 0 .. n + 1 /\ n + 1 # 0 /\ (n + 1) - 1 = n
    BY <1>1
  <2> QED BY <1>1, <1>2, <2>1
<1> QED BY <1>6, <1>7 DEF n, Keeps

(* There is exactly one.                                                   *)
LEMMA KeepsExists ==
  ASSUME NEW mask
  PROVE  \A l \in Seq(Events) :
           \E g : Keeps(l, mask, g) /\ \A h : Keeps(l, mask, h) => h = g
<1> DEFINE X == {l \in Seq(Events) :
                   \E g : Keeps(l, mask, g) /\ \A h : Keeps(l, mask, h) => h = g}
<1>1. <<>> \in X
  <2>1. PICK g : g = [i \in 0 .. 0 |-> <<>>]
    OBVIOUS
  <2>2. ASSUME NEW h PROVE Keeps(<<>>, mask, h) <=> h = g
    <3>1. [i \in 0 .. 0 |-> IF i = 0 THEN <<>> ELSE Keep(h[i - 1], <<>>[i], mask)]
            = [i \in 0 .. 0 |-> <<>>]
      BY \A i \in 0 .. 0 : i = 0
    <3>2. Len(<<>>) = 0
      OBVIOUS
    <3> QED BY <2>1, <3>1, <3>2 DEF Keeps
  <2> QED BY <2>2
<1>2. ASSUME NEW l \in Seq(Events), NEW e \in Events, l \in X PROVE Append(l, e) \in X
  <2> DEFINE n == Len(l)
  <2>1. PICK g : Keeps(l, mask, g) /\ \A h : Keeps(l, mask, h) => h = g
    BY <1>2
  <2>2. n \in Nat /\ Len(Append(l, e)) = n + 1 /\ Append(l, e)[n + 1] = e
        /\ \A i \in 1 .. n : Append(l, e)[i] = l[i]
    BY AppendProperties
  <2> HIDE DEF n
  <2>3. PICK f : f = [i \in 0 .. n + 1 |-> IF i = n + 1 THEN Keep(g[n], e, mask) ELSE g[i]]
    OBVIOUS
  <2>4. Keeps(Append(l, e), mask, f)
    <3>1. \A i \in 0 .. n : g[i] = IF i = 0 THEN <<>> ELSE Keep(g[i - 1], l[i], mask)
      BY <2>1, KeepsAt DEF n
    <3>2. \A i \in 0 .. n : f[i] = g[i]
      BY <2>2, <2>3
    <3>3. \A i \in 0 .. n + 1 : i # 0 => f[i - 1] = g[i - 1]
      BY <2>2, <3>2
    <3>4. \A i \in 0 .. n + 1 : i = n + 1 \/ (i \in 0 .. n /\ (i # 0 => i \in 1 .. n))
      BY <2>2
    <3>5. n + 1 # 0 /\ (n + 1) - 1 = n /\ n + 1 \in 0 .. n + 1
      BY <2>2
    <3>6. ASSUME NEW i \in 0 .. n + 1
          PROVE  f[i] = IF i = 0 THEN <<>> ELSE Keep(f[i - 1], Append(l, e)[i], mask)
      <4>1. CASE i = n + 1
        BY <2>2, <2>3, <3>3, <3>5, <4>1
      <4>2. CASE i # n + 1
        BY <2>2, <3>1, <3>2, <3>3, <3>4, <4>2
      <4> QED BY <4>1, <4>2
    <3>7. f = [i \in 0 .. n + 1 |->
                IF i = 0 THEN <<>> ELSE Keep(f[i - 1], Append(l, e)[i], mask)]
      BY <2>3, <3>6
    <3> QED BY <2>2, <3>7 DEF Keeps
  <2>5. ASSUME NEW h, Keeps(Append(l, e), mask, h) PROVE h = f
    <3>1. g = [i \in 0 .. n |-> h[i]] /\ h[n + 1] = Keep(h[n], e, mask)
      <4>1. /\ Keeps(l, mask, [i \in 0 .. Len(l) |-> h[i]])
            /\ h[Len(l) + 1] = Keep(h[Len(l)], e, mask)
        BY <2>5, KeepsBefore
      <4>2. [i \in 0 .. Len(l) |-> h[i]] = g
        BY <2>1, <4>1
      <4> QED BY <4>1, <4>2 DEF n
    <3>2. \A i \in 0 .. n : h[i] = g[i]
      BY <3>1
    <3>3. h = [i \in 0 .. n + 1 |->
                IF i = 0 THEN <<>> ELSE Keep(h[i - 1], Append(l, e)[i], mask)]
      BY <2>2, <2>5 DEF Keeps
    <3>4. ASSUME NEW i \in 0 .. n + 1 PROVE h[i] = f[i]
      <4>1. n \in 0 .. n /\ (i # n + 1 => i \in 0 .. n)
        BY <2>2
      <4> QED BY <2>3, <3>1, <3>2, <4>1
    <3>5. PICK k : k = [i \in 0 .. n + 1 |->
                IF i = 0 THEN <<>> ELSE Keep(h[i - 1], Append(l, e)[i], mask)]
      OBVIOUS
    <3>6. k = h
      BY <3>3, <3>5
    <3>7. k = [i \in 0 .. n + 1 |-> k[i]]
      BY <3>5
    <3>8. h = [i \in 0 .. n + 1 |-> h[i]]
      BY <3>6, <3>7
    <3>9. f = [i \in 0 .. n + 1 |-> f[i]]
      BY <2>3
    <3> QED BY <3>4, <3>8, <3>9
  <2> QED BY <2>4, <2>5, AppendProperties
<1>3. \A l \in Seq(Events) : l \in X
  <2> HIDE DEF X
  <2> QED BY <1>1, <1>2, BySequences
<1> QED BY <1>3

(* Filtering is a fold, too.                                               *)
LEMMA FilterLogSteps ==
  ASSUME NEW mask
  PROVE  /\ FilterLog(<<>>, mask) = <<>>
         /\ \A l \in Seq(Events), e \in Events :
              FilterLog(Append(l, e), mask) = Keep(FilterLog(l, mask), e, mask)
<1> DEFINE G(l) == CHOOSE g : Keeps(l, mask, g)
<1>1. \A l : FilterLog(l, mask) = G(l)[Len(l)]
  BY DEF FilterLog, Keeps
<1>2. \A l \in Seq(Events) : Keeps(l, mask, G(l)) /\ \A h : Keeps(l, mask, h) => h = G(l)
  BY KeepsExists
<1> HIDE DEF G
<1>3. FilterLog(<<>>, mask) = <<>>
  <2>1. <<>> \in Seq(Events) /\ Len(<<>>) = 0 /\ 0 \in 0 .. 0
    OBVIOUS
  <2>2. G(<<>>)[0] = <<>>
    <3>1. Keeps(<<>>, mask, G(<<>>))
      BY <1>2, <2>1
    <3>2. \A i \in 0 .. Len(<<>>) :
            G(<<>>)[i] = IF i = 0 THEN <<>> ELSE Keep(G(<<>>)[i - 1], <<>>[i], mask)
      BY <3>1, KeepsAt
    <3> QED BY <2>1, <3>2
  <2> QED BY <1>1, <2>1, <2>2
<1>4. ASSUME NEW l \in Seq(Events), NEW e \in Events
      PROVE  FilterLog(Append(l, e), mask) = Keep(FilterLog(l, mask), e, mask)
  <2> DEFINE n == Len(l)
             h == G(Append(l, e))
  <2>1. n \in Nat /\ Append(l, e) \in Seq(Events) /\ Len(Append(l, e)) = n + 1
    BY AppendProperties
  <2>2. Keeps(Append(l, e), mask, h)
    BY <1>2, <2>1
  <2> HIDE DEF h
  <2>3. Keeps(l, mask, [i \in 0 .. n |-> h[i]]) /\ h[n + 1] = Keep(h[n], e, mask)
    BY <2>2, KeepsBefore
  <2>4. G(l) = [i \in 0 .. n |-> h[i]]
    BY <1>2, <2>3
  <2>5. n \in 0 .. n
    BY <2>1
  <2>6. G(l)[n] = h[n]
    BY <2>4, <2>5
  <2>7. FilterLog(l, mask) = h[n]
    BY <1>1, <2>6
  <2>8. FilterLog(Append(l, e), mask) = h[n + 1]
    BY <1>1, <2>1 DEF h
  <2> QED BY <2>3, <2>7, <2>8
<1> QED BY <1>3, <1>4

-----------------------------------------------------------------------------
(* What filtering does to the replay.                                      *)

SoftValues == [start : Digests \cup {"none", "zero", "three", "ff"},
               ext : Seq(Digests \cup {"none", "zero", "three"})]

LEMMA ReplayTyped ==
  ASSUME NEW soft \in [Pcrs -> SoftValues], NEW e \in Events
  PROVE  Replay(soft, e) \in [Pcrs -> SoftValues]
<1>1. Pcr0 \in Pcrs /\ e.pcr \in Pcrs /\ e.data \in Digests \cup {"none", "zero", "three"}
  BY AttestationAssumption DEF Events
<1>2. ASSUME NEW p \in Pcrs
      PROVE  /\ [soft[p] EXCEPT !.start = e.data] \in SoftValues
             /\ [soft[p] EXCEPT !.ext = Append(@, e.data)] \in SoftValues
  <2>1. soft[p] \in SoftValues
    OBVIOUS
  <2>2. Append(soft[p].ext, e.data) \in Seq(Digests \cup {"none", "zero", "three"})
    BY <1>1, <2>1, AppendProperties DEF SoftValues
  <2> QED BY <1>1, <2>1, <2>2 DEF SoftValues
<1>3. [soft EXCEPT ![Pcr0].start = e.data] \in [Pcrs -> SoftValues]
  BY <1>1, <1>2
<1>4. [soft EXCEPT ![e.pcr].ext = Append(@, e.data)] \in [Pcrs -> SoftValues]
  BY <1>1, <1>2
<1> QED BY <1>3, <1>4 DEF Replay

LEMMA SoftPcrsTyped == \A l \in Seq(Events) : SoftPcrs(l) \in [Pcrs -> SoftValues]
<1> DEFINE X == {l \in Seq(Events) : SoftPcrs(l) \in [Pcrs -> SoftValues]}
<1>1. <<>> \in X
  <2>1. Value("zero") \in SoftValues /\ Value("ff") \in SoftValues
    <3>1. <<>> \in Seq(Digests \cup {"none", "zero", "three"})
      BY EmptySeq
    <3> QED BY <3>1 DEF Value, SoftValues
  <2>2. ZeroedPcrs \in [Pcrs -> SoftValues]
    BY <2>1 DEF ZeroedPcrs
  <2>3. <<>> \in Seq(Events)
    BY EmptySeq
  <2> QED BY <2>2, <2>3, SoftPcrsSteps
<1>2. ASSUME NEW l \in Seq(Events), NEW e \in Events, l \in X PROVE Append(l, e) \in X
  BY <1>2, SoftPcrsSteps, ReplayTyped, AppendProperties
<1>3. \A l \in Seq(Events) : l \in X
  <2> HIDE DEF X
  <2> QED BY <1>1, <1>2, BySequences
<1> QED BY <1>3

(* An event changes the PCR it is about, and PCR 0 if it is a locality.    *)
LEMMA ReplayAt ==
  ASSUME NEW soft \in [Pcrs -> SoftValues], NEW e \in Events, NEW p \in Pcrs
  PROVE  Replay(soft, e)[p] =
           IF e.type = "locality" /\ p = Pcr0 THEN [soft[p] EXCEPT !.start = e.data]
           ELSE IF e.type = "extend" /\ p = e.pcr THEN [soft[p] EXCEPT !.ext = Append(@, e.data)]
           ELSE soft[p]
BY AttestationAssumption DEF Replay, Events

(* A startup locality is the first event of a log, and is about PCR 0.     *)
Orderly(l) == \A i \in DOMAIN l : l[i].type = "locality" => i = 1 /\ l[i].pcr = Pcr0

LEMMA OrderlyAppend ==
  ASSUME NEW l \in Seq(Events), NEW e \in Events
  PROVE  Orderly(Append(l, e)) <=>
           Orderly(l) /\ (e.type = "locality" => l = <<>> /\ e.pcr = Pcr0)
<1>1. /\ Len(l) \in Nat /\ DOMAIN l = 1 .. Len(l)
      /\ Append(l, e) \in Seq(Events) /\ Len(Append(l, e)) = Len(l) + 1
      /\ DOMAIN Append(l, e) = 1 .. Len(l) + 1
      /\ Append(l, e)[Len(l) + 1] = e
      /\ \A i \in 1 .. Len(l) : Append(l, e)[i] = l[i]
  BY AppendProperties
<1>2. l = <<>> <=> Len(l) + 1 = 1
  BY <1>1, EmptySeq
<1>3. \A i \in 1 .. Len(l) + 1 : i \in 1 .. Len(l) \/ i = Len(l) + 1
  BY <1>1
<1>4. Len(l) + 1 \in 1 .. Len(l) + 1 /\ 1 .. Len(l) \subseteq 1 .. Len(l) + 1
  BY <1>1
<1> HIDE DEF Orderly
<1>5. ASSUME Orderly(Append(l, e))
      PROVE  Orderly(l) /\ (e.type = "locality" => l = <<>> /\ e.pcr = Pcr0)
  BY <1>1, <1>2, <1>4, <1>5 DEF Orderly
<1>6. ASSUME Orderly(l), e.type = "locality" => l = <<>> /\ e.pcr = Pcr0 PROVE Orderly(Append(l, e))
  BY <1>1, <1>2, <1>3, <1>6 DEF Orderly
<1> QED BY <1>5, <1>6

(* The filtered log replays to the same values of the PCRs that pass, and  *)
(* to untouched PCRs otherwise.                                            *)
LEMMA Filtered ==
  ASSUME NEW mask
  PROVE  \A l \in Seq(Events) :
           /\ FilterLog(l, mask) \in Seq(Events)
           /\ \A i \in DOMAIN FilterLog(l, mask) : FilterLog(l, mask)[i].pcr \in mask
           /\ l = <<>> => FilterLog(l, mask) = <<>>
           /\ Orderly(l) =>
                /\ Orderly(FilterLog(l, mask))
                /\ \A p \in Pcrs : SoftPcrs(FilterLog(l, mask))[p] =
                                     IF p \in mask THEN SoftPcrs(l)[p] ELSE ZeroedPcrs[p]
<1> DEFINE Good(l, k) ==
             /\ k \in Seq(Events)
             /\ \A i \in DOMAIN k : k[i].pcr \in mask
             /\ l = <<>> => k = <<>>
             /\ Orderly(l) =>
                  /\ Orderly(k)
                  /\ \A p \in Pcrs : SoftPcrs(k)[p] =
                                       IF p \in mask THEN SoftPcrs(l)[p] ELSE ZeroedPcrs[p]
           X == {l \in Seq(Events) : Good(l, FilterLog(l, mask))}
<1>1. <<>> \in X
  <2>1. FilterLog(<<>>, mask) = <<>> /\ SoftPcrs(<<>>) = ZeroedPcrs
    BY FilterLogSteps, SoftPcrsSteps
  <2>2. <<>> \in Seq(Events) /\ DOMAIN <<>> = {}
    OBVIOUS
  <2>3. Good(<<>>, <<>>)
    BY <2>1, <2>2 DEF Orderly
  <2> QED BY <2>1, <2>2, <2>3
<1>2. ASSUME NEW l \in Seq(Events), NEW e \in Events, l \in X PROVE Append(l, e) \in X
  <2>1. PICK k : k = FilterLog(l, mask) /\ Good(l, k)
    BY <1>2
  <2>2. Append(l, e) \in Seq(Events) /\ Append(l, e) # <<>>
    BY AppendProperties
  <2>3. SoftPcrs(Append(l, e)) = Replay(SoftPcrs(l), e)
    BY SoftPcrsSteps
  <2>4. FilterLog(Append(l, e), mask) = Keep(k, e, mask)
    BY <2>1, FilterLogSteps
  <2>5. /\ k \in Seq(Events) /\ SoftPcrs(k) \in [Pcrs -> SoftValues]
        /\ SoftPcrs(l) \in [Pcrs -> SoftValues]
    BY <2>1, SoftPcrsTyped
  <2>6. Orderly(Append(l, e)) => Orderly(l) /\ (e.type = "locality" => l = <<>> /\ e.pcr = Pcr0)
    BY OrderlyAppend
  <2>7. CASE e.pcr \in mask
    <3>1. Keep(k, e, mask) = Append(k, e)
      BY <2>7 DEF Keep
    <3>2. Append(k, e) \in Seq(Events) /\ SoftPcrs(Append(k, e)) = Replay(SoftPcrs(k), e)
      BY <2>5, AppendProperties, SoftPcrsSteps
    <3>3. \A i \in DOMAIN Append(k, e) : Append(k, e)[i].pcr \in mask
      <4>1. /\ DOMAIN k = 1 .. Len(k) /\ DOMAIN Append(k, e) = 1 .. Len(k) + 1 /\ Len(k) \in Nat
            /\ Append(k, e)[Len(k) + 1] = e
            /\ \A i \in 1 .. Len(k) : Append(k, e)[i] = k[i]
        BY <2>5, AppendProperties
      <4>2. \A i \in 1 .. Len(k) + 1 : i \in 1 .. Len(k) \/ i = Len(k) + 1
        BY <4>1
      <4> QED BY <2>1, <2>7, <4>1, <4>2
    <3>4. ASSUME Orderly(Append(l, e))
          PROVE  /\ Orderly(Append(k, e))
                 /\ \A p \in Pcrs : SoftPcrs(Append(k, e))[p] =
                      IF p \in mask THEN SoftPcrs(Append(l, e))[p] ELSE ZeroedPcrs[p]
      <4>1. Orderly(l) /\ Orderly(k) /\ (e.type = "locality" => k = <<>> /\ e.pcr = Pcr0)
        BY <2>1, <2>6, <3>4
      <4>2. Orderly(Append(k, e))
        BY <2>5, <4>1, OrderlyAppend
      <4>3. ASSUME NEW p \in Pcrs
            PROVE  Replay(SoftPcrs(k), e)[p] =
                     IF p \in mask THEN Replay(SoftPcrs(l), e)[p] ELSE ZeroedPcrs[p]
        <5>1. SoftPcrs(k)[p] = IF p \in mask THEN SoftPcrs(l)[p] ELSE ZeroedPcrs[p]
          BY <2>1, <4>1
        <5> DEFINE At(soft) ==
                     IF e.type = "locality" /\ p = Pcr0 THEN [soft[p] EXCEPT !.start = e.data]
                     ELSE IF e.type = "extend" /\ p = e.pcr
                          THEN [soft[p] EXCEPT !.ext = Append(@, e.data)]
                     ELSE soft[p]
        <5>2. Replay(SoftPcrs(k), e)[p] = At(SoftPcrs(k))
          BY <2>5, ReplayAt
        <5>3. Replay(SoftPcrs(l), e)[p] = At(SoftPcrs(l))
          BY <2>5, ReplayAt
        <5>4. CASE p \in mask
          <6>1. SoftPcrs(k)[p] = SoftPcrs(l)[p]
            BY <5>1, <5>4
          <6>2. At(SoftPcrs(k)) = At(SoftPcrs(l))
            BY <6>1
          <6> QED BY <5>2, <5>3, <5>4, <6>2
        <5>5. CASE p \notin mask
          <6>1. p # e.pcr /\ ~ (e.type = "locality" /\ p = Pcr0)
            BY <2>7, <4>1, <5>5
          <6>2. At(SoftPcrs(k)) = SoftPcrs(k)[p]
            BY <6>1
          <6> QED BY <5>1, <5>2, <5>5, <6>2
        <5> QED BY <5>4, <5>5
      <4> QED BY <2>3, <3>2, <4>2, <4>3
    <3>5. Good(Append(l, e), Append(k, e))
      BY <2>2, <3>2, <3>3, <3>4
    <3>6. FilterLog(Append(l, e), mask) = Append(k, e)
      BY <2>4, <3>1
    <3> HIDE DEF Good
    <3> QED BY <2>2, <3>5, <3>6
  <2>8. CASE e.pcr \notin mask
    <3>1. Keep(k, e, mask) = k
      BY <2>8 DEF Keep
    <3>2. ASSUME Orderly(Append(l, e))
          PROVE  /\ Orderly(k)
                 /\ \A p \in Pcrs : SoftPcrs(k)[p] =
                      IF p \in mask THEN SoftPcrs(Append(l, e))[p] ELSE ZeroedPcrs[p]
      <4>1. Orderly(l) /\ Orderly(k) /\ (e.type = "locality" => e.pcr = Pcr0)
        BY <2>1, <2>6, <3>2
      <4>2. ASSUME NEW p \in Pcrs, p \in mask PROVE Replay(SoftPcrs(l), e)[p] = SoftPcrs(l)[p]
        <5>1. p # e.pcr /\ ~ (e.type = "locality" /\ p = Pcr0)
          BY <2>8, <4>1, <4>2
        <5>2. SoftPcrs(l) \in [Pcrs -> SoftValues]
          BY <2>5
        <5> QED BY <5>1, <5>2, ReplayAt
      <4> QED BY <2>1, <2>3, <4>1, <4>2
    <3>3. Good(Append(l, e), k)
      BY <2>1, <2>2, <3>2
    <3> QED BY <2>2, <2>4, <3>1, <3>3
  <2> QED BY <2>7, <2>8
<1>3. \A l \in Seq(Events) : l \in X
  <2> HIDE DEF X
  <2> QED BY <1>1, <1>2, BySequences
<1> QED BY <1>3

(* A PCR for which nothing is logged is replayed to its first value.       *)
LEMMA NothingLogged ==
  \A l \in Seq(Events) : \A p \in Pcrs \ LogMask(l) :
    (p = Pcr0 => \A i \in DOMAIN l : l[i].type # "locality") => SoftPcrs(l)[p] = ZeroedPcrs[p]
<1> DEFINE Silent(l, p) == /\ \A i \in DOMAIN l : ~ (l[i].type = "extend" /\ l[i].pcr = p)
                           /\ p = Pcr0 => \A i \in DOMAIN l : l[i].type # "locality"
           X == {l \in Seq(Events) : \A p \in Pcrs : Silent(l, p) => SoftPcrs(l)[p] = ZeroedPcrs[p]}
<1>1. <<>> \in X
  BY SoftPcrsSteps
<1>2. ASSUME NEW l \in Seq(Events), NEW e \in Events, l \in X PROVE Append(l, e) \in X
  <2> SUFFICES ASSUME NEW p \in Pcrs, Silent(Append(l, e), p)
               PROVE  SoftPcrs(Append(l, e))[p] = ZeroedPcrs[p]
    BY AppendProperties
  <2>1. /\ DOMAIN l = 1 .. Len(l) /\ DOMAIN Append(l, e) = 1 .. Len(l) + 1 /\ Len(l) \in Nat
        /\ Append(l, e)[Len(l) + 1] = e
        /\ \A i \in 1 .. Len(l) : Append(l, e)[i] = l[i]
    BY AppendProperties
  <2>2. Len(l) + 1 \in 1 .. Len(l) + 1 /\ 1 .. Len(l) \subseteq 1 .. Len(l) + 1
    BY <2>1
  <2>3. Silent(l, p) /\ ~ (e.type = "extend" /\ e.pcr = p) /\ (p = Pcr0 => e.type # "locality")
    BY <2>1, <2>2
  <2>4. SoftPcrs(l)[p] = ZeroedPcrs[p]
    BY <1>2, <2>3
  <2>5. Replay(SoftPcrs(l), e)[p] = SoftPcrs(l)[p]
    BY <2>3, ReplayAt, SoftPcrsTyped
  <2> QED BY <2>4, <2>5, SoftPcrsSteps
<1>3. \A l \in Seq(Events) : l \in X
  <2> HIDE DEF X
  <2> QED BY <1>1, <1>2, BySequences
<1> QED BY <1>3 DEF LogMask

-----------------------------------------------------------------------------
(* What was made in quiet is accepted                                      *)

(* The log accounts for the PCRs, up to the event that is not yet logged.  *)
LedgerInv ==
  /\ Orderly(log)
  /\ half.type # "locality"
  /\ pcrs = Replay(SoftPcrs(log), half)

(* As long as nothing was measured since the attester got its log, this is *)
(* still the log, and what it read is still in the PCRs.                   *)
SnapshotInv ==
  "att" \in quiet /\ att.at \in {"reading", "quoting", "copying"} =>
    /\ half = NoEvent /\ att.log = log
    /\ \A p \in Before(att.block) : att.pcrs[p] = pcrs[p]
    /\ att.at = "copying" /\ att.signed =>
         att.quote.mask = att.mask /\ att.quote.values = Restrict(pcrs, att.mask)

(* An attestation that was made in quiet is of one log.                    *)
Coherent ==
  \E l \in Seq(Events), mask \in SUBSET Pcrs :
    /\ Orderly(l)
    /\ blob.log = FilterLog(l, mask)
    /\ \A p \in Pcrs : blob.pcrs[p] = SoftPcrs(l)[p]
    /\ blob.signed => blob.quote.mask = mask /\ blob.quote.values = Restrict(blob.pcrs, mask)

MadeInv ==
  /\ "made" \in quiet => Coherent
  /\ "since" \in quiet => \A p \in Pcrs : blob.pcrs[p] = pcrs[p]

(* And if nothing was measured since, the verifier reads the same PCRs.    *)
CurrentInv ==
  ver.at # "idle" /\ "since" \in quiet =>
    \A p \in Before(ver.block) : ver.current[p] = pcrs[p]

QuietInv == LedgerInv /\ SnapshotInv /\ MadeInv /\ CurrentInv

LEMMA NothingHalf == \A soft : Replay(soft, NoEvent) = soft
BY DEF Replay, NoEvent

(* The firmware's log accounts for the PCRs it starts with.                *)
LEMMA LedgerStarts ==
  ASSUME NEW locality \in Localities
  PROVE  /\ StartLog(locality) \in Seq(Events) /\ Orderly(StartLog(locality))
         /\ StartValue(locality) = SoftPcrs(StartLog(locality))
<1>1. locality \in {"zero", "three"} /\ Pcr0 \in Pcrs /\ Pcr0 \notin Resettable
  BY AttestationAssumption
<1>2. StartLog(locality) \in Seq(Events)
  BY Starts
<1>3. Orderly(<<>>) /\ <<>> \in Seq(Events)
  BY DEF Orderly
<1>4. CASE locality = "zero"
  BY <1>1, <1>2, <1>3, <1>4, SoftPcrsSteps DEF StartLog, StartValue, ZeroedPcrs
<1>5. CASE locality = "three"
  <2> DEFINE e == [pcr |-> Pcr0, type |-> "locality", data |-> locality]
  <2>1. e \in Events /\ e.type = "locality" /\ e.pcr = Pcr0 /\ e.data = "three"
    BY <1>1, <1>5 DEF Events
  <2>2. StartLog(locality) = <<e>>
    BY <1>5 DEF StartLog
  <2> HIDE DEF e
  <2>3. <<e>> = Append(<<>>, e)
    BY <2>1
  <2>4. Orderly(<<e>>)
    BY <1>3, <2>1, <2>3, OrderlyAppend
  <2>5. SoftPcrs(<<e>>) = Replay(ZeroedPcrs, e)
    BY <1>3, <2>1, <2>3, SoftPcrsSteps
  <2>6. Replay(ZeroedPcrs, e) = [ZeroedPcrs EXCEPT ![Pcr0].start = "three"]
    BY <2>1 DEF Replay
  <2>7. [ZeroedPcrs EXCEPT ![Pcr0].start = "three"] = StartValue(locality)
    <3>1. [Value("zero") EXCEPT !.start = "three"] = Value("three")
      BY DEF Value
    <3>2. ZeroedPcrs[Pcr0] = Value("zero")
      BY <1>1 DEF ZeroedPcrs
    <3>3. [ZeroedPcrs EXCEPT ![Pcr0].start = "three"]
            = [ZeroedPcrs EXCEPT ![Pcr0] = Value("three")]
      BY <3>1, <3>2
    <3> QED BY <1>1, <1>5, <3>3 DEF ZeroedPcrs, StartValue
  <2> QED BY <1>2, <2>2, <2>4, <2>5, <2>6, <2>7
<1> QED BY <1>1, <1>4, <1>5

LEMMA InitQuiet == Init => QuietInv
<1> SUFFICES ASSUME Init PROVE QuietInv
  OBVIOUS
<1>1. PICK locality \in Localities : pcrs = StartValue(locality) /\ log = StartLog(locality)
  BY DEF Init
<1>2. half = NoEvent /\ half.type = "none" /\ quiet = {}
  BY DEF Init, NoEvent
<1>3. LedgerInv
  BY <1>1, <1>2, LedgerStarts, NothingHalf DEF LedgerInv
<1> QED BY <1>2, <1>3 DEF QuietInv, SnapshotInv, MadeInv, CurrentInv

(* The platform keeps the account, and ends the quiet.                     *)
LEMMA PlatformQuiet ==
  ASSUME IInv, QuietInv, Platform
  PROVE  QuietInv'
<1>1. blob' = blob /\ quiet' = quiet \ {"att", "since"}
  BY DEF Platform, Measure, LogMeasurement, LogNoAction, Reboot
<1>2. log \in Seq(Events) /\ half \in Events /\ pcrs = Replay(SoftPcrs(log), half)
      /\ Orderly(log) /\ half.type # "locality"
  BY DEF IInv, PlatformInv, QuietInv, LedgerInv
<1>3. LedgerInv'
  <2>1. CASE Measure
    <3>1. PICK p \in Pcrs, d \in Digests :
            /\ half = NoEvent /\ log' = log
            /\ pcrs' = [pcrs EXCEPT ![p].ext = Append(@, d)]
            /\ half' = [pcr |-> p, type |-> "extend", data |-> d]
      BY <2>1 DEF Measure
    <3>2. pcrs = SoftPcrs(log)
      BY <1>2, <3>1, NothingHalf
    <3>3. pcrs' = Replay(SoftPcrs(log), half')
      BY <3>1, <3>2 DEF Replay
    <3>4. half'.type # "locality"
      BY <3>1
    <3> QED BY <1>2, <3>1, <3>3, <3>4 DEF LedgerInv
  <2>2. CASE LogMeasurement
    <3>1. log' = Append(log, half) /\ half' = NoEvent /\ pcrs' = pcrs
      BY <2>2 DEF LogMeasurement
    <3>2. pcrs' = SoftPcrs(log') /\ Orderly(log')
      BY <1>2, <3>1, SoftPcrsSteps, OrderlyAppend
    <3>3. half'.type # "locality"
      BY <3>1 DEF NoEvent
    <3> QED BY <3>1, <3>2, <3>3, NothingHalf DEF LedgerInv
  <2>3. CASE LogNoAction
    <3>1. PICK p \in Pcrs : /\ half = NoEvent /\ half' = half /\ pcrs' = pcrs
                            /\ log' = Append(log, [pcr |-> p, type |-> "noaction", data |-> "none"])
      BY <2>3 DEF LogNoAction
    <3> DEFINE e == [pcr |-> p, type |-> "noaction", data |-> "none"]
    <3>2. e \in Events /\ e.type = "noaction"
      BY DEF Events
    <3>3. \A soft : Replay(soft, e) = soft
      BY DEF Replay
    <3> HIDE DEF e
    <3>4. pcrs = SoftPcrs(log)
      BY <1>2, <3>1, NothingHalf
    <3>5. SoftPcrs(Append(log, e)) = SoftPcrs(log) /\ Orderly(Append(log, e))
      BY <1>2, <3>2, <3>3, SoftPcrsSteps, OrderlyAppend
    <3>6. log' = Append(log, e)
      BY <3>1 DEF e
    <3> QED BY <1>2, <3>1, <3>4, <3>5, <3>6, NothingHalf DEF LedgerInv
  <2>4. CASE Reboot
    <3>1. PICK locality \in Localities :
            pcrs' = StartValue(locality) /\ log' = StartLog(locality) /\ half' = NoEvent
      BY <2>4 DEF Reboot
    <3>2. half'.type # "locality"
      BY <3>1 DEF NoEvent
    <3> QED BY <3>1, <3>2, LedgerStarts, NothingHalf DEF LedgerInv
  <2> QED BY <2>1, <2>2, <2>3, <2>4 DEF Platform
<1>4. SnapshotInv' /\ CurrentInv'
  BY <1>1 DEF SnapshotInv, CurrentInv
<1>5. MadeInv'
  BY <1>1 DEF QuietInv, MadeInv, Coherent
<1> QED BY <1>3, <1>4, <1>5 DEF QuietInv

LEMMA AttesterQuiet ==
  ASSUME IInv, QuietInv, Attester
  PROVE  QuietInv'
<1>0. /\ UNCHANGED <<pcrs, log, half, boot>> /\ DOMAIN att = DOMAIN NoCall
      /\ ver' = ver \/ ver'.at = "idle"
  BY DEF IInv, AttesterInv, Attester, Generate, GetLogSize, GetLog, CallAgain, ReadPcrs,
         GenerateQuote, Finish, NoCheck
<1>1. LedgerInv'
  BY <1>0 DEF QuietInv, LedgerInv
<1>2. CASE Generate \/ GetLogSize \/ CallAgain
  <2>1. blob' = blob /\ quiet' = quiet /\ att'.at \in {"called", "sized"}
    BY <1>0, <1>2 DEF Generate, GetLogSize, CallAgain, NoCall
  <2> QED BY <1>0, <1>1, <2>1 DEF QuietInv, SnapshotInv, MadeInv, Coherent, CurrentInv
<1>3. CASE GetLog
  <2>1. /\ blob' = blob /\ att.block = 1
        /\ \/ quiet' = quiet \cup {"att"} /\ half = NoEvent
           \/ quiet' = quiet \ {"att"}
    BY <1>3 DEF GetLog, IInv, AttesterInv
  <2>2. \/ att'.at \in {"idle", "resized"}
        \/ att' = [att EXCEPT !.at = "reading", !.log = log]
    BY <1>0, <1>3 DEF GetLog, NoCall
  <2>3. SnapshotInv'
    <3>1. CASE att'.at \in {"idle", "resized"}
      BY <3>1 DEF SnapshotInv
    <3>2. CASE att' = [att EXCEPT !.at = "reading", !.log = log]
      <4>1. att'.at = "reading" /\ att'.log = log /\ att'.block = 1
        BY <1>0, <2>1, <3>2 DEF NoCall
      <4>2. Before(1)' = {}
        BY AllRead DEF Before
      <4> QED BY <1>0, <2>1, <4>1, <4>2 DEF SnapshotInv
    <3> QED BY <2>2, <3>1, <3>2
  <2>4. MadeInv' /\ CurrentInv'
    BY <1>0, <2>1 DEF QuietInv, MadeInv, Coherent, CurrentInv
  <2> QED BY <1>1, <2>3, <2>4 DEF QuietInv
<1>4. CASE ReadPcrs
  <2> DEFINE n == att.block
  <2>1. blob' = blob /\ quiet' = quiet
    BY <1>4 DEF ReadPcrs
  <2>2. n \in 1 .. Blocks /\ DOMAIN att.pcrs = Before(n)
    BY <1>4 DEF ReadPcrs, IInv, AttesterInv
  <2>3. /\ att.at = "reading" /\ att'.pcrs = Read(att.pcrs, n) /\ att'.block = n + 1
        /\ att'.log = att.log /\ att'.signed = att.signed
        /\ att'.at = "copying" => ~att'.signed
    BY <1>0, <1>4 DEF ReadPcrs, NoCall
  <2>4. /\ \A p \in Before(n) : Read(att.pcrs, n)[p] = att.pcrs[p]
        /\ \A p \in Before(n + 1) \ Before(n) : Read(att.pcrs, n)[p] = pcrs[p]
    BY <2>2, ReadOneMore
  <2> HIDE DEF n
  <2>5. SnapshotInv'
    <3> SUFFICES ASSUME "att" \in quiet
                 PROVE  /\ half = NoEvent /\ att'.log = log
                        /\ \A p \in Before(n + 1) : att'.pcrs[p] = pcrs[p]
      BY <1>0, <2>1, <2>3 DEF SnapshotInv, Before
    <3>1. /\ half = NoEvent /\ att.log = log
          /\ \A p \in Before(n) : att.pcrs[p] = pcrs[p]
      BY <2>3 DEF QuietInv, SnapshotInv, n
    <3> QED BY <2>3, <2>4, <3>1
  <2>6. MadeInv' /\ CurrentInv'
    BY <1>0, <2>1 DEF QuietInv, MadeInv, Coherent, CurrentInv
  <2> QED BY <1>1, <2>5, <2>6 DEF QuietInv
<1>5. CASE GenerateQuote
  <2>1. blob' = blob /\ quiet' = quiet /\ att.at = "quoting"
    BY <1>5 DEF GenerateQuote
  <2>2. /\ att'.at = "copying" /\ att'.log = att.log /\ att'.pcrs = att.pcrs
        /\ att'.block = att.block /\ att'.mask = att.mask
        /\ att'.quote.mask = att.mask /\ att'.quote.values = Restrict(pcrs, att.mask)
    BY <1>0, <1>5 DEF GenerateQuote, NoCall
  <2>3. SnapshotInv'
    BY <1>0, <2>1, <2>2 DEF QuietInv, SnapshotInv, Before
  <2>4. MadeInv' /\ CurrentInv'
    BY <1>0, <2>1 DEF QuietInv, MadeInv, Coherent, CurrentInv
  <2> QED BY <1>1, <2>3, <2>4 DEF QuietInv
<1>6. CASE Finish
  <2>1. /\ att.at = "copying" /\ ver.at = "idle" /\ att'.at = "idle"
        /\ blob'.signed = att.signed /\ blob'.pcrs = att.pcrs /\ blob'.quote = att.quote
        /\ blob'.log = FilterLog(att.log, att.mask)
        /\ quiet' = IF "att" \in quiet THEN quiet \cup {"made", "since"}
                                       ELSE quiet \ {"made", "since"}
    BY <1>6 DEF Finish, NoCall
  <2>2. SnapshotInv' /\ CurrentInv'
    BY <1>0, <2>1 DEF SnapshotInv, CurrentInv
  <2>3. MadeInv'
    <3>1. CASE "att" \notin quiet
      BY <2>1, <3>1 DEF MadeInv
    <3>2. CASE "att" \in quiet
      <4>1. /\ half = NoEvent /\ att.log = log
            /\ \A p \in Before(att.block) : att.pcrs[p] = pcrs[p]
            /\ att.signed => /\ att.quote.mask = att.mask
                             /\ att.quote.values = Restrict(pcrs, att.mask)
        BY <2>1, <3>2 DEF QuietInv, SnapshotInv
      <4>2. Before(att.block) = Pcrs /\ att.mask \subseteq Pcrs
        BY <2>1, AllRead DEF IInv, AttesterInv
      <4>3. \A p \in Pcrs : blob'.pcrs[p] = pcrs[p]
        BY <2>1, <4>1, <4>2
      <4>4. pcrs = SoftPcrs(log) /\ Orderly(log) /\ log \in Seq(Events)
        BY <4>1, NothingHalf DEF QuietInv, LedgerInv, IInv, PlatformInv
      <4>5. Restrict(pcrs, att.mask) = Restrict(blob'.pcrs, att.mask)
        BY <4>2, <4>3 DEF Restrict
      <4>6. Coherent'
        <5>1. /\ blob'.log = FilterLog(log, att.mask)
              /\ \A p \in Pcrs : blob'.pcrs[p] = SoftPcrs(log)[p]
              /\ blob'.signed => /\ blob'.quote.mask = att.mask
                                 /\ blob'.quote.values = Restrict(blob'.pcrs, att.mask)
          BY <2>1, <4>1, <4>3, <4>4, <4>5
        <5> QED BY <4>2, <4>4, <5>1 DEF Coherent
      <4> QED BY <1>0, <4>3, <4>6 DEF MadeInv
    <3> QED BY <3>1, <3>2
  <2> QED BY <1>1, <2>2, <2>3 DEF QuietInv
<1> QED BY <1>2, <1>3, <1>4, <1>5, <1>6 DEF Attester

LEMMA VerifierQuiet ==
  ASSUME IInv, QuietInv, Verifier
  PROVE  QuietInv'
<1>1. UNCHANGED <<pcrs, log, half, boot, att, blob, quiet>> /\ DOMAIN ver = DOMAIN NoCheck
  BY DEF IInv, VerifierInv, Verifier, Challenge, ValidateSigned, ValidateLocal, ReadCurrent,
         CompareLocal
<1>2. LedgerInv' /\ SnapshotInv' /\ MadeInv'
  BY <1>1 DEF QuietInv, LedgerInv, SnapshotInv, MadeInv, Coherent, Before
<1>3. CASE ver'.at = "idle"
  BY <1>2, <1>3 DEF QuietInv, CurrentInv
<1>4. CASE ver'.at # "idle"
  <2>1. CASE ValidateLocal
    <3>1. ver'.block = 1
      BY <1>1, <1>4, <2>1 DEF ValidateLocal, NoCheck
    <3>2. Before(1)' = {}
      BY AllRead DEF Before
    <3> QED BY <1>2, <3>1, <3>2 DEF QuietInv, CurrentInv
  <2>2. CASE ReadCurrent
    <3> DEFINE n == ver.block
    <3>1. n \in 1 .. Blocks /\ DOMAIN ver.current = Before(n) /\ ver.at = "reading"
      BY <2>2 DEF ReadCurrent, IInv, VerifierInv
    <3>2. ver'.current = Read(ver.current, n) /\ ver'.block = n + 1
      BY <1>1, <2>2 DEF ReadCurrent, NoCheck
    <3>3. /\ \A p \in Before(n) : Read(ver.current, n)[p] = ver.current[p]
          /\ \A p \in Before(n + 1) \ Before(n) : Read(ver.current, n)[p] = pcrs[p]
      BY <3>1, ReadOneMore
    <3>4. "since" \in quiet => \A p \in Before(n) : ver.current[p] = pcrs[p]
      BY <3>1 DEF QuietInv, CurrentInv
    <3> HIDE DEF n
    <3>5. CurrentInv'
      BY <1>1, <3>2, <3>3, <3>4 DEF CurrentInv, Before
    <3> QED BY <1>2, <3>5 DEF QuietInv
  <2>3. CASE Challenge \/ ValidateSigned \/ CompareLocal
    BY <1>1, <1>4, <2>3 DEF Challenge, ValidateSigned, CompareLocal, NoCheck
  <2> QED BY <2>1, <2>2, <2>3 DEF Verifier
<1> QED BY <1>3, <1>4

LEMMA NextQuiet == IInv /\ QuietInv /\ [Next]_vars => QuietInv'
<1> SUFFICES ASSUME IInv, QuietInv, [Next]_vars PROVE QuietInv'
  OBVIOUS
<1>1. CASE UNCHANGED vars
  BY <1>1 DEF vars, QuietInv, LedgerInv, SnapshotInv, MadeInv, Coherent, CurrentInv, Before
<1> QED BY <1>1, PlatformQuiet, AttesterQuiet, VerifierQuiet DEF Next

(* A coherent attestation replays: its log to the values of the PCRs that  *)
(* it is about, and to blank ones otherwise.                               *)
LEMMA CoherentReplays ==
  ASSUME Coherent, blob.log # <<>>
  PROVE  /\ blob.signed => /\ Restrict(blob.pcrs, blob.quote.mask) = blob.quote.values
                           /\ ReplayMatches(blob.quote.mask)
         /\ \/ Pcr0 \in LogMask(blob.log)
            \/ \A i \in DOMAIN blob.log : blob.log[i].type # "locality"
            => ReplayMatches(LogMask(blob.log))
<1>1. PICK l \in Seq(Events), mask \in SUBSET Pcrs :
        /\ Orderly(l)
        /\ blob.log = FilterLog(l, mask)
        /\ \A p \in Pcrs : blob.pcrs[p] = SoftPcrs(l)[p]
        /\ blob.signed => blob.quote.mask = mask /\ blob.quote.values = Restrict(blob.pcrs, mask)
  BY DEF Coherent
<1>2. /\ blob.log \in Seq(Events) /\ Orderly(blob.log)
      /\ \A i \in DOMAIN blob.log : blob.log[i].pcr \in mask
      /\ \A p \in Pcrs : SoftPcrs(blob.log)[p] =
                           IF p \in mask THEN SoftPcrs(l)[p] ELSE ZeroedPcrs[p]
  BY <1>1, Filtered
<1>3. \A p \in Pcrs : ZeroedPcrs[p] \in Blank
  BY DEF ZeroedPcrs, Blank
<1>4. Replayable(blob.log)
  <2>1. ASSUME NEW i \in DOMAIN blob.log, blob.log[i].type = "locality"
        PROVE  SoftPcrs(SubSeq(blob.log, 1, i - 1))[Pcr0] = Value("zero")
    <3>1. i = 1
      BY <1>2, <2>1 DEF Orderly
    <3>2. SubSeq(blob.log, 1, i - 1) = <<>>
      BY <1>2, <3>1
    <3>3. ZeroedPcrs[Pcr0] = Value("zero")
      BY AttestationAssumption DEF ZeroedPcrs
    <3> QED BY <3>2, <3>3, SoftPcrsSteps
  <2> QED BY <2>1 DEF Replayable
<1>5. ReplayMatches(mask)
  BY <1>1, <1>2, <1>3, <1>4 DEF ReplayMatches
<1>6. ASSUME \/ Pcr0 \in LogMask(blob.log)
             \/ \A i \in DOMAIN blob.log : blob.log[i].type # "locality"
      PROVE  ReplayMatches(LogMask(blob.log))
  <2>1. ASSUME NEW p \in LogMask(blob.log)
        PROVE  p \in Pcrs /\ blob.pcrs[p] = SoftPcrs(blob.log)[p]
    BY <1>1, <1>2, <2>1 DEF LogMask
  <2>2. ASSUME NEW p \in Pcrs, p \notin LogMask(blob.log) PROVE SoftPcrs(blob.log)[p] \in Blank
    BY <1>2, <1>3, <1>6, <2>2, NothingLogged
  <2> QED BY <1>4, <2>1, <2>2 DEF ReplayMatches
<1> QED BY <1>1, <1>5, <1>6

(* An attestation that was made while nothing was measured is accepted,    *)
(* with the exceptions of QuietPlatformValidates: the log that was         *)
(* filtered, the PCRs that were read block by block, and the quote are of  *)
(* one state of the platform, and filtering does not change what the PCRs  *)
(* that pass the filter replay to.                                         *)
THEOREM QuietIsAccepted == Spec => QuietPlatformValidates
<1> DEFINE A == Judges("rejected") =>
                  \/ "made" \notin quiet
                  \/ blob.log = <<>>
                  \/ ~ver'.local /\ ~blob.signed
                  \/ ~ver'.local /\ ver'.nonced /\ blob.quote.nonce # ver.nonce
                  \/ ver'.local /\ "since" \notin quiet
                  \/ ver'.local /\ Pcr0 \notin LogMask(blob.log)
                     /\ \E i \in DOMAIN blob.log : blob.log[i].type = "locality"
<1>1. IInv /\ QuietInv /\ [Next]_vars => A
  <2> SUFFICES ASSUME IInv, QuietInv, [Next]_vars, Judges("rejected"),
                      "made" \in quiet, blob.log # <<>>,
                      ~ver'.local => blob.signed,
                      ~ver'.local /\ ver'.nonced => blob.quote.nonce = ver.nonce,
                      ver'.local => "since" \in quiet,
                      ver'.local => \/ Pcr0 \in LogMask(blob.log)
                                    \/ \A i \in DOMAIN blob.log : blob.log[i].type # "locality"
               PROVE  FALSE
    OBVIOUS
  <2>1. DOMAIN ver = DOMAIN NoCheck
    BY DEF IInv, VerifierInv
  <2>2. ver' # ver /\ ver'.at = "idle" /\ ver'.result = "rejected"
    BY DEF Judges
  <2>3. /\ blob.signed => /\ Restrict(blob.pcrs, blob.quote.mask) = blob.quote.values
                          /\ ReplayMatches(blob.quote.mask)
        /\ ver'.local => ReplayMatches(LogMask(blob.log))
    BY CoherentReplays DEF QuietInv, MadeInv
  <2>4. ValidateSigned \/ ValidateLocal \/ CompareLocal
    <3>1. ~UNCHANGED vars /\ ~(Measure \/ LogMeasurement \/ LogNoAction) /\ ~Attester
      BY <2>1, <2>2 DEF vars, Measure, LogMeasurement, LogNoAction, Attester, Generate, GetLogSize,
                  GetLog, CallAgain, ReadPcrs, GenerateQuote, Finish, NoCheck
    <3>2. ~Reboot /\ ~Challenge
      BY <2>2 DEF Reboot, Challenge, NoCheck
    <3>3. ~ReadCurrent
      BY <2>1, <2>2 DEF ReadCurrent, NoCheck
    <3> QED BY <3>1, <3>2, <3>3 DEF Next, Platform, Verifier
  <2>5. CASE ValidateSigned
    <3>1. PICK nonced \in BOOLEAN :
            ver' = [NoCheck EXCEPT !.nonce = ver.nonce, !.nonced = nonced,
                                   !.result = IF blob.signed /\ ValidateQuote(nonced)
                                                 /\ ReplayMatches(blob.quote.mask)
                                              THEN "accepted" ELSE "rejected"]
      BY <2>5 DEF ValidateSigned
    <3>2. ~ver'.local /\ ver'.nonced = nonced
      BY <2>1, <3>1 DEF NoCheck
    <3>3. blob.signed /\ ValidateQuote(nonced) /\ ReplayMatches(blob.quote.mask)
      BY <2>3, <3>2 DEF ValidateQuote
    <3> QED BY <2>1, <2>2, <3>1, <3>3 DEF NoCheck
  <2>6. CASE ValidateLocal
    <3>1. ver'.local
      BY <2>1, <2>6 DEF ValidateLocal, NoCheck
    <3> QED BY <2>1, <2>2, <2>3, <2>6, <3>1 DEF ValidateLocal, NoCheck
  <2>7. CASE CompareLocal
    <3>1. /\ ver'.local /\ ver.at = "comparing" /\ Before(ver.block) = Pcrs
      BY <2>1, <2>7, AllRead DEF CompareLocal, IInv, VerifierInv, NoCheck
    <3>2. \A p \in Pcrs : blob.pcrs[p] = ver.current[p]
      BY <3>1 DEF QuietInv, MadeInv, CurrentInv
    <3>3. \A p \in LogMask(blob.log) : blob.pcrs[p] = ver.current[p]
      BY <3>2 DEF LogMask
    <3>4. ver' = [NoCheck EXCEPT !.nonce = ver.nonce, !.local = TRUE, !.result = "accepted"]
      BY <2>7, <3>3 DEF CompareLocal
    <3> QED BY <2>1, <2>2, <3>4 DEF NoCheck
  <2> QED BY <2>4, <2>5, <2>6, <2>7
<1>2. IInv /\ QuietInv /\ [Next]_vars => [A]_vars
  BY <1>1
<1>3. Spec => []QuietInv
  BY InitQuiet, NextQuiet, Invariance, PTL DEF Spec
<1> QED BY <1>2, <1>3, Invariance, PTL DEF Spec, QuietPlatformValidates

=============================================================================
