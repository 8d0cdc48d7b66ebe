# TSS.MSR: a TLA+ verification project

TSS.MSR is Microsoft's TPM 2.0 software stack: libraries that build, send and
answer-check TPM commands in C#, C++, JavaScript, Java, Python and Rust, and the
tools around them. This project models the parts with state and interleaving, checks them
with TLC and proves the main results with TLAPS. It covers:

- the **Tbs resource manager** of TSS.Net, through which several clients share one TPM (checked and proved);
- the **command dispatch of TSS.Net's Tpm2**, the object that every application calls (checked and proved);
- the **command dispatch of TSS.C++**, synchronous and asynchronous, with the TPM's half of the authorization (checked and proved);
- the **policies of TSS.C++**: the computed digest against the executed branch (checked and proved);
- **platform attestation in PCPTool**: what is collected while the platform goes on, and how it is validated (checked and proved).

## Inventory

| Component (under `src/`) | State | Operations | What is hard | What makes it correct | Status |
|---|---|---|---|---|---|
| **Tbs resource manager** `TSS.NET/TSS.Net/SlotManager.cs`, `SlotContext.cs` | the list `ObjectContexts` (owner, virtual handle, TPM handle, loaded, saved blob, last use), `UseCount` | `DispatchCommand`, `DisposeContext`, `TbsContext.PowerCycle`, state save | many clients; eviction while a command is in flight; context gap; partial failures of TPM calls; work outside the lock | each client sees a private TPM; nothing lost, nothing leaked; the lock is given back | modelled, proved |
| **Tpm2 dispatch** `Tpm2.cs` | one-shot modifiers (allowed and expected errors, sessions, locality), the outer command of a nested one | `DispatchMethod`, `ProcessError`, session preparation and validation | nested commands that create or flush temporary sessions; two-stage reset of the modifiers; retries; exceptions | a modifier applies to exactly one command; temporary sessions do not leak; every call returns | modelled in its control, proved |
| **Sessions** `Sessions.cs` | nonces, session key, bound object | `NewNonceCaller`, `SetNonceTpm`, HMAC, parameter encryption, policy execution | responses that are not processed leave the nonces apart | both sides agree on the nonces of the next command | planned |
| **Device transports** `TpmDevices.cs`, `LinuxTpmDevice.cs`, `TbsDevice.cs` | sockets, the cancel flag, the request in flight | `DispatchCommand`, `CancelContext`, `SignalCancelOn/Off` | a cancel that races an answer; end of stream; retries | a cancel never hits another command | planned |
| **Policies** `Policy.cs`, `PolicyAces.cs` | the policy tree | digest computation, execution of a branch | OR branches, order of assertions | executing a branch gives the computed digest | planned last |
| **Marshalling and types** `Marshaller.cs`, `TpmBaseClasses.cs`, `SupportClasses.cs`, generated `X_TpmDefs.cs` | buffer position | put, get, length fix-up | nested lengths | round trip | sequential data conversion; later, if at all |
| **Keys and cryptography** `TpmKey.cs`, `Crypto*.cs` | - | cryptography | - | - | not modelled: computation, no protocol state |
| **TSS.JS** `TSS.JS/src` | pending callback, session list | asynchronous `dispatchCommand`, device handshake | a command issued before the previous response | a response reaches its own caller | planned |
| **TSS.C++ dispatch** `TSS.CPP/Src/Tpm2.cpp`, `TpmAuthSessions.cpp`, `include/Tpm2.h` | modifiers, session list, pending command, authorization values of the hierarchies, audit digest, nonces | `Dispatch`, `DispatchOut`, `DispatchIn`, the `_` modifiers, the generated wrappers | RETRY runs the whole of `DispatchOut` again; exceptions with different remains; values changed in two halves around the answer; asynchronous completion | library and TPM agree; modifiers belong to one command | modelled, proved |
| **TSS.C++ policies** `TpmPolicy.cpp` | the tree, marks on the session | `GetPolicyDigest`, `GetBranchIds`, `Execute` | two computations of one digest; keys to flush on every path | the executed branch gives the computed digest | modelled, proved |
| **TSS.C++ devices** `TpmDevice.cpp` | socket or TBS handle | connect, send, receive, power | end of stream, reconnection | - | not modelled: sequential I/O |
| **TSS.C++ types** `TpmTypes.*`, `TpmStructure.cpp`, `Serialize.cpp` | - | marshalling | - | round trip | not modelled: generated |
| **PCPTool attestation** `PCPTool.v11/dll/AttestationApi.cpp`, `TPM20.cpp` | the attestation blob | generate, validate, filter log, replay log | log, PCR blocks and quote are collected one after another; buffers sized in earlier calls | accepted means true; made in quiet means accepted | modelled, proved |
| **PCPTool, the rest** `exe/`, `Tpm12.cpp`, key attestation | files, key store | command line | - | - | not modelled |
| **TSS.Java, TSS.Py, TSS.Rust** | as TSS.C++ without async | as TSS.C++ dispatch | as there | as there | siblings, no module of their own |
| **Tpm2Tester** `TestSubstrate`, `TpmProxy/NetProxy.cs` | test queue; two forwarding threads | scheduling; proxying | shutdown of two connections | every byte forwarded, both threads end | proxy planned |
| **TssCodeGen, samples, vendored OpenSSL** | - | - | - | - | not modelled: generator, samples, third-party code |

Interactions: an application calls `Tpm2`, which turns the call into bytes and gives
them to a `Tpm2Device`. That is a transport, or a `TbsContext`, one per client of a `Tbs`. `Tbs`
takes its lock, rewrites the handles and uses a `Tpm2` of its own over the real device,
both for the client's command and for the `ContextSave`, `ContextLoad` and `FlushContext`
commands it adds. Everything the clients share is in that one object and in the TPM.
TSS.C++ has no resource manager: `Tpm2` writes to a `TpmDevice`, `PolicyTree::Execute` issues its commands through the
same `Tpm2`, and a policy session is then one of the sessions that `ProcessAuthSessions` sends. PCPTool does not use
the libraries: it talks to the Windows TBS, which also keeps the measured-boot log.

`PROJECT.json` lists the components with their sources, and under `hazards` the places that are
hard to test, each with the properties that watch it.

## Modules

| Module | What it is |
|---|---|
| `TpmResources` | the TPM as Tbs uses it: object slots, sessions, context blobs with sequence numbers and epoch, the context gap. Not in the repository, hence external |
| `TbsSlots` | `SlotManager.cs` and `SlotContext.cs`, with the properties |
| `PrivateTpm` | the abstract specification: each client has a TPM of its own with unbounded room |
| `Tpm2Dispatch` | the modifiers of `Tpm2.cs`, `DispatchMethod` with everything it calls, with the properties |
| `OneShot` | the abstract specification of it: a modifier applies to the next command, to all of it and to no other |
| `MCDispatch` | TLC instances of `Tpm2Dispatch` |
| `CppDispatch` | `Tpm2.cpp` of TSS.C++, and the TPM's own authorization values, nonces and audit count, with the properties |
| `CppInvocation` | the abstract specification of it: what `Tpm2.h` promises about modifiers and about how a command ends |
| `CppPolicy` | `TpmPolicy.cpp` of TSS.C++, with the properties |
| `PcpAttestation` | platform, attester and verifier of PCPTool, with the properties |
| `PcpAttestationProof` | theorems on it |
| `MCCppDispatch`, `MCCppPolicy`, `MCPcpAttestation` | TLC instances: sessions with and without encryption, the policies, the PCR blocks |
| `MCTbs` | TLC instances: workloads (sets of operations) and symmetry |
| `TbsTypeProof` | facts about the operators of `TpmResources`, and about `Min` and `Max`; the inductive invariant `IInv`, type correctness; names |
| `TbsTruthProof` | the database tells the truth about the TPM; `TbsSlots` implements `PrivateTpm` |
| `TbsWholeProof` | ... and the whole truth: consistency, and space is refused only if everything is pinned |
| `Tpm2DispatchProof` | `Tpm2Dispatch`: the shape of the call stack, types, what TRUE means, no dead session |
| `Tpm2OneShotProof` | `Tpm2Dispatch` implements `OneShot`, and flushes the sessions it creates |
| `CppDispatchProof` | `CppDispatch`: types, agreement of library and TPM, authorization, the safety part of `CppInvocation` |
| `CppPolicyProof` | `CppPolicy`: types, keys, marks, and that execution and software compute one digest, for policies of any size |

### How TbsSlots corresponds to the code

`contexts` is the list `ObjectContexts`. An entity is numbered by its creation, and so is
its context; contexts are only appended, so list order is number order, and every
"first in the list" of the code is a `Min`. Number 0 is the temporary context that `GetContext` makes for
handles that need no translation.

`cmd` is the command in progress under `lock(this)`. `DispatchCommand` is split at every
TPM call that can fail, and `cmd.phase` says where it is:

| Code | Actions |
|---|---|
| parse, look up handles | `Begin`, `RejectUnknown` |
| `LoadEntities`, `LoadObject` | `SkipLoaded`, `LoadObject`, `LoadObjectNeedsSpace` |
| `ReplaceHandlesIn` | `AllLoaded` |
| the loop around `TpmDevice.DispatchCommand` | `ExecFails`, `ExecNeedsSpace`, `ShortenInDispatch`, `CannotShortenInDispatch` |
| `MakeSpace` | `EvictVictim`, `NothingToEvict`, `ShortenInMakeSpace`, `CannotShortenInMakeSpace` |
| `ProcessUpdatedTpmState`, `ReplaceHandlesOut` | `Load`, `StartAuthSession`, `Use`, `EndSession`, `SequenceComplete`, `EventSequenceComplete`, `FlushContext`, `ContextSave`, `ContextLoad`, `Clear` |
| `StateSaveAndReload` | `StartStateSave`, `ContextSaveNext`, `ContextSaveThrows`, `StateSaveDone` |
| `DisposeContext`; `TbsContext.PowerCycle` | `Dispose`; `PowerCycle`, then outside the lock `ProcessTpmClear` |

`Load` stands for every command that fills an object slot (Load, LoadExternal, CreatePrimary,
CreateLoaded, MacStart, HashSequenceStart), `Use` for every command that changes no
slot. `EndSession` is such a command with a session that lacks ContinueSession: the TPM
flushes the session, and Tbs does not look. `Legal` says what a command carries: the handles of its handle area, then any sessions. `ContextSave` and `ContextLoad` go on to the
TPM after Tbs has refused them, and end in an exception. `ProcessTpmClear` drops the caller's contexts in one step, where the code walks the list without the lock. The data of commands, their authorization and
their response parameters are abstracted; so are diagnostics commands, which Tbs passes on
untouched. `RhNull` is TPM_RH_NULL, the handle of a failed `ContextLoad`; `Loaded` answers true for
it, as the getter does, which is why `cmd.retry` is needed to say that `LoadObject` goes round again.

What the TPM may answer is left open where the code cannot tell: any command may fail for
a reason of its own (`ExecFails`), any command may want a free object slot for intermediate
results, and a free slot is chosen arbitrarily.

### How Tpm2Dispatch corresponds to the code

A `Tpm2` object has one thread and much state that outlives a call. To run a command of the application it issues commands
of its own through itself, so `DispatchMethod` is re-entered. `stack` is the call stack, cut at the calls that reach the TPM, `ret` what a finished activation gives back, an exception included;
`tpm2` is the record of the object's fields under their own names. Where an activation stands is the field `at` of its frame:

| `at` | Code | Actions |
|---|---|---|
| `prepare` | `PrepareRequestSessions`: implicit sessions, fallback to another hash algorithm, names | `PrepareOwnCommand`, `StartMissingSession`, `MissingSessionStarted`, `MissingSessionLost`, `FallBackToNextHash`, `MissingSessionFailed`, `WrongSessionHandle`, `ReadMissingName`, `NameRead`, `Prepared` |
| `send` | the sending loop, `GetProperty` on NV_RATE | `ComputeCpHash`, `RecordCommandBytes`, `Execute`, `NvRate`, `PropertyRead`, `DeviceFails` |
| `flush` | `_ClearCommandPrelaunchContext`, then `ProcessError` and `_ClearCommandContext` | `FlushTempSession`, `TempSessionFlushed`, `FlushThrows`, `FinishCommand` |
| `catchPrepare`, `catchSend` | the same calls in the two exception handlers | as above, `FinishCatch` |
| `cancelSafe` | `CancelSafeStartAuthSession`, `CancelSafeFlushContext` with their `CancelationCtx` | `Attempt`, `AttemptAgain`, `AttemptsDone`, `AttemptThrows` |

`Entered` and `ClearCommandContext` are the two ends of an activation: the first moves `CurrentCommand` to `OuterCommand`, the second moves it
back, or clears the modifiers when no command is outside. The `_Allow...`, `_Expect...` and other modifiers are
one action each, taken between commands. `call` remembers what was asked for the
command in progress, what the TPM said, and which sessions it was sent with. Only the properties and the refinement read it, except for `call.sent`, which
stands for the command buffer that the sending loop sends again.

The environment decides what the TPM says. An application's command may succeed, fail, be cancelled, answer NV_RATE, come back with a
response that does not validate (`Garbled`: the exception comes from `ProcessResponseSessions` or after it), or the device throws before or after the TPM acted.
The library's own commands fail as `Unreliable` says, and otherwise for a reason: no free session handle, an unknown hash algorithm, a flushed handle.
`RateLimited` are the commands that the TPM may answer with NV_RATE, the library's own among them: then `GetCapability` is nested in a nested command, the single `OuterCommand` is overwritten, and when
`GetCapability` returns the nested command takes itself for the outermost one. It flushes the list that its caller is walking over (`ListChanged`) or clears the sessions its caller is filling (`MissingSessionLost`).
TPM_RC_RETRY, on which the code sends the same bytes again without any change of state, is a stutter.

Left out: the callbacks that observe or replace commands (`TheAlternateActionCallback`, `TheInjectCmdCallback`, `TheCmdParamsCallback`, `TheCmdBufCallback`, `TheCmdStatsCallback`, with
the repeated sending they ask for), command auditing, parameter encryption, `TestCycleNv`, `TempNames`, strict behaviour, `SessionBase.None`, `SafeFlushContext`,
and that the device is closed on an `IOException`.

### How CppDispatch corresponds to the code

`tpm2` has the members of `Tpm2.h` under their names; `Pending` stands for `PendingCommand`, which is nonzero exactly while an answer is
awaited, `admin` for the authorization value of the hierarchy handle in `_Admin...`, `audit` for the steps of `CommandAuditHash`. `call` is
the command and its request structure, which is why `call.auth` and `call.newAuth` survive a RETRY as they do in `req`.
The device holds the answer (`wire`) between `DispatchOut` and `DispatchIn`.

| Code | Actions |
|---|---|
| `_Sessions` (both forms), `_AllowErrors`, `_DemandError`, `_ExpectError`, `_GetCpHash`, `_Audit`, `_StartAudit`, `_EndAudit` | `SetSessions`, `ReplaceSessions`, ... |
| the generated wrappers `X`, `Async.X` | `Issue` |
| `DispatchOut` | `OutSend`, or one of its early ends `OutCpHash`, `OutNoAudit`, `OutDeviceThrows` |
| `Async.XComplete`; another call meanwhile | `Complete`; `RefusedWhilePending` |
| `DispatchIn`, one action per way out of it, in its order | `InDeviceThrows`, `InRetry`, `InError`, `InUnexpectedSuccess`, `InBadHmac`, `InBadParameters`, `InSuccess` |

The TPM's half is external: it refuses a command whose authorization value or nonces are not its own, and rolls the nonces of the sessions of
a command that it executes. `nonces` is the set of sessions whose current nonceTPM the library holds. `lost` is history: what an executed command
changed and no processed answer told the library. A hash, an HMAC and an encrypted parameter are what they depend on: `HmacVerifies` compares the keys,
`Decrypts` the parties' views of who encrypts. One hierarchy (lockout) and one NV index stand for the entities with an authorization value. The commands differ in how many handles they have and
how many of these are authorized (`NumHandles`, `NumAuthHandles`; `NvReadPublic` has one and none, `NvRead` two and one), because the answer's HMAC is keyed by the first (`ResponseAuth`), the request's by the second.
Modifiers are called between commands only, although the code accepts them while an asynchronous command is pending.

### How CppPolicy corresponds to the code

A digest is the sequence of what was extended since the last reset. `UpdatePolicyDigest` is the virtual function of that name with its
overrides; `Accumulated` walks a chain backwards as `PolicyTree::GetPolicyDigest` does, and `ChainDigests` is the recursion through PolicyOR.
`Kinds` are the classes of assertions (without `PolicyTicket`, whose methods only assert FALSE), and `WellFormed` says what a tree built by the constructors looks like:
no chain is empty, only a PolicyOR branches, and it cannot contain itself, since its constructor clones its branches. `ExecuteChain` flattens the recursion of `PolicyTree::Execute`
into the TPM commands that it issues, and these are then executed one by one: `LoadKey`, `VerifySignature`, `ExecuteAuthorize`, `ExecuteOr`, `FlushKey`, and `ExecuteAssertion` for
all that only extend the digest. Each can fail, `FlushContext` included (`FlushFails`), and the failing path is the code's: an exception, with a flush before it or without (`LeaveKey`), or nothing at all. `exec.left` counts the keys left by these paths.
`flags` are `NeedsHmac` and `NeedsPassword` of the `AUTH_SESSION`; `UseSession` is the command that uses it, for which `ProcessAuthSessions` decides what to send (one session; with several, the HMAC of an earlier one may stay in the `TPMS_AUTH_COMMAND` of a later one, `Tpm2.cpp:113`).

### How PcpAttestation corresponds to the code

`Platform` is external: a PCR is extended first and the event logged second, and a reboot starts both anew. `att` is a call of
`TpmAttGeneratePlatformAttestation`, cut at each call into the TBS: `GetLogSize`, `GetLog` with the filter's size pass and the check of the caller's buffer,
`ReadPcrs` once per `PCR_Read`, `GenerateQuote`, `Finish` with the filter's copy pass. `CallAgain` is the caller's second call with a buffer of the returned size.
`ver` is `TpmAttValidatePlatformAttestation`: `ValidateSigned` (steps 1 to 5), `ValidateLocal`, `ReadCurrent`, `CompareLocal` (without an AIK, step 6 reads the platform's PCRs). The caller
decides by its arguments and not by the attestation: with an AIK an unsigned one is rejected, without one a signature is not looked at, and the nonce is compared if one of 20 bytes is passed (`nonced`).
`Keep` and `Replay` are the loop bodies of `TpmAttiFilterLog` and `TpmAttiComputeSoftPCRs`, which `FilterLog` and `SoftPcrs` repeat over the log.
`Read` and `SoftPcrs` keep a PCR as its start value and the digests extended into it; a start value other than zero comes from a startup-locality event or, for the resettable PCRs, is ff.

## Runs

| Run | Asks | Result |
|---|---|---|
| `tbs_shared` | Do database and TPM agree between commands (`CheckConsistency`, the assertions of the method of that name)? Is nothing lost (`NothingLost`)? Does the translated command buffer stay valid through retries (`BufferHandlesStayValid`)? Is space refused only if the command itself pins everything (`SpaceFailsOnlyIfAllPinned`)? | holds |
| `tbs_private` | Does each client see a private TPM (`PrivateSpec`), even when freed TPM handles and virtual handles collide? Do two contexts ever claim one TPM handle (`LoadedApart`)? | holds |
| `tbs_gap` | With a context gap of 2, so that sessions are reloaded and saved again from both loops and some attempts fail half-way: is every entity that is not loaded still in a blob that the TPM accepts (`NothingLost`), and do all loops end (`DispatchEnds`)? | holds |
| `tbs_all` | With every operation, those included that bypass Tbs and leave contexts of entities that are gone: types, names (`DistinctNames`), and does every dispatch still end (`DispatchEnds`)? | holds |
| `tbs_flush` | "the handle is translated" (`SlotManager.cs:122`) | refuted: FlushContext has no handle area, so its handle reaches the TPM as it is |
| `dispatch_once` | Does every modifier apply to the next command and to no other, whatever the library does in between (`ModifiersAreOneShot`, the refinement to `OneShot`, which names two exceptions)? Are the sessions created for a command flushed when it returns, also after commands that were not sent have used up the TPM's sessions (`TemporarySessionsAreFlushed`)? | holds |
| `dispatch_faults` | When creating and flushing sessions fails, or is rate limited: is a command that returns true one the TPM executed (`TrueMeansDone`)? Is a dead session ever used (`NoDeadSession`)? Does every call return (`CallReturns`)? Types | holds |
| `dispatch_errors` | "By default, Tpm2 throws an exception when an error is returned by the TPM." (`Tpm2.cs:362`) | refuted: after the fallback to another hash algorithm errors go on being tolerated, and the application's failing command returns false |
| `cpp_dispatch` | Do library and TPM agree between commands, except for what a broken answer hid (`LibraryAgrees`)? Is a command ever refused for its authorization, or its answer rejected, though nothing was lost (`AuthorizationHolds`, but for the uses it names as `Mishandled`)? Does the dispatcher implement `CppInvocation` (`InvocationSpec`), RETRY, asynchronous completion and exceptions included, and does every command end? | holds |
| `cpp_encrypt` | "TSS.C++ adds all necessary parameter encryption and decryption." (`Samples.cpp:2245`) | refuted: encrypting the request forgets the session that decrypts the response |
| `cpp_policy` | Does an execution that returns SUCCESS satisfy the policy (`SuccessMeansSatisfied`)? Does the session then send what the TPM wants (`SendsWhatIsWanted`)? Are keys flushed on every path but a refused PolicySigned and a failed flush (`KeysAreFlushed`)? | holds |
| `pcp_attestation` | Does an accepted attestation describe one instant (`AcceptedMeansTrue`)? Is one made in quiet accepted (`QuietPlatformValidates`)? | holds |

`tbs_flush`, `dispatch_errors` and `cpp_encrypt` are the findings in `PROJECT.json`. The promise that `dispatch_errors`
refutes is one that `dispatch_once` shows to hold as long as nothing goes wrong with the library's own sessions. Deadlock is checked in every run but one:
a client can always ask for something, be it a state save, and a dispatch can always go on. `pcp_attestation` stops when all events, boots and challenges of the bounds are used up.
Bounds stop the start of commands only, never a dispatch that is under way, so they cannot
cause or hide a failure inside one.

Bounds, and why they are enough:

- Two clients: every property relates one client to any other. `tbs_gap`
  is about one list and needs one; it has four sessions of which two fit, so that two can
  be saved in another order than they were created while a fourth is started.
- Slots (`ObjHandles`, `MaxLoadedSessions`) are at least the handles that one command
  references (`MaxRefs`), as the TPM specification guarantees three of each, in `tbs_shared` and `tbs_private`; `tbs_gap` and `tbs_all` have one object slot, so that a command
  that needs two gives up, which must end, too. Entities (`MaxEntities`) exceed the slots, so that there is something to evict.
- `MaxUse` exceeds what the creations use up, so that commands still start when every entity
  exists, and the counts that select the victim differ.
- `MaxSaves` bounds the TPM's context counter when a command starts, and `ContextGap` is either
  larger than it (the gap never closes) or 2 or 3 (it closes after as many saves).
- `VObjHandles` has a spare element in `tbs_private`, so that a virtual handle can be drawn
  that no TPM slot has; `MaxResets` 1 allows one `Clear` or power cycle in `tbs_all`.
- Workloads: `tbs_shared` and `tbs_private` leave out the operations that change the TPM behind
  Tbs's back (below); `tbs_gap` takes loads, sessions and state saves; sessions and state saves are what moves the context counter.

- The dispatch runs have one command of the application, with one or two handles that need authorization: the first session may be created and the second refused.
  `dispatch_once` has three session handles, which the sessions of commands that are not sent can use up, so that a StartAuthSession is refused; `dispatch_faults` has two, and the sessions that
  could not be flushed fill it, too.
- `MaxAttempts` (25 in the code) is 2 or 1 and `MaxNvRetries` (4) is 2 or 1. `MaxCancels` bounds the cancellations in a row of one command of the library:
  in `dispatch_once` they are as many as the retries, so the last attempt succeeds; in `dispatch_faults` one more, so that the attempts run out.
  `MaxPermanent` bounds the nesting of `_DisableExceptions`.
- `RateLimited` is the application's command in `dispatch_once`; in `dispatch_faults` it is StartAuthSession and FlushContext, in frames of the stack up to `MaxDepth` 3, which is as deep as they get
  without NV_RATE (a rate-limited command that takes itself for the outermost one flushes sessions again, so that nesting would have no bound). ReadPublic is left out (below).
- `dispatch_once` offers every modifier, with `ReadPublic` and `GetCapability` failing at will, and takes creation and flushing of
  sessions as reliable once they are not cancelled, with a TPM that knows SHA384; `dispatch_faults` is the opposite choice, with the modifiers that its properties depend on.

- `cpp_dispatch`: two HMAC sessions, and lists of one session, of two, and of a password and a session, so that two calls of `_Sessions` give two sessions and one of them can be left over from an exception;
  all commands, hence every combination of no, one or two handles, authorized or not; two authorization values; one error code of the TPM besides a refused authorization (all errors are treated alike, except the expected one);
  one RETRY, which is the second time that the same request goes out; one audited command. Sessions have no encryption attribute, which is what `cpp_encrypt` is about. Device failures are on: they are what makes `lost` nonempty.
- `cpp_policy`: all chains of one to three out of six assertions (two that differ only in their argument; one for each way to reset, load a key, or mark the session), all trees of
  a PolicyOR with two branches after at most one assertion, and a PolicyOR nested in a branch. Three executions, so that a session is used again after an exception and after success; two transient slots, so that the keys left behind fill the TPM.
  `PolicyAuthorize` itself does not fail, since its failure goes unnoticed (below).
- `pcp_attestation`: two PCRs, one in each of two blocks, one of them the locality PCR and one that starts at ff; both masks that filter something in or out; two events per boot are needed for a torn read to
  differ in the log and the PCRs; two boots; one challenge besides none, passed to the verifier or not.

Symmetry permutes clients, TPM slots and session handles; nothing in the code orders them. It is not used
for `tbs_gap`, `tbs_all`, `dispatch_faults` and `cpp_dispatch`, which check liveness.

Fairness: `FairSpec` asks weak fairness of `DispatchStep \/ StateSaveStep` and nothing of the clients. It says that the
thread that holds the lock keeps running and that each TPM call returns. `DispatchEnds` is then a statement about the
loops: `LoadObject` repeats only after `MakeSpace` succeeded, each success takes a victim
away, and the context-gap loops stop when the sequence number of the first re-save comes round.
In `Tpm2Dispatch`, `Spec` asks weak fairness of `Library`, the steps of a call in progress: the calling thread goes on and the device answers or
throws. The application is not fair. `CallReturns` then says that the three retry loops (NV_RATE, cancellation, hash algorithm) end together, although they nest.
In `CppDispatch`, `Spec` asks weak fairness of the dispatcher's own steps and of `Complete`: the calling thread goes on, the device answers or throws, and the application
completes what it started asynchronously. `CppInvocation` asks that a running command ends; it does because RETRY is bounded (a TPM that answered RETRY for ever would keep `Dispatch` in its loop).
`CppPolicy` and `PcpAttestation` state safety only.

Mutants: `PROJECT.json` gives for every property a plausible slip in the code that violates it (the blob of an
eviction not stored, the pinned entities forgotten, index 0 for 1 in `EventSequenceComplete`, ...); each is an operator
beside the definition it replaces.

## Proofs

All theorems are about `Spec` for every value of the constants. Those on Tbs use two named assumptions: `ResourceAssumption` (finite
handle sets, disjoint kinds, positive limits) and `TbsAssumption` (virtual handles include the TPM's, special
handles are apart). There is no bound on clients, entities or slots in them. Those on the TSS.C++ dispatch use `CppAssumption`
(special values are no sessions or error codes; session lists are sequences), with any number of sessions, values, error codes and retries.
Those on the Tpm2 dispatch use `DispatchAssumption` (the same for its constants, and that nothing but the library's own commands is called unreliable), with any number of commands, handles, sessions, errors and retries.
Those on the policies use `PolicyAssumption` (the policies are `WellFormed`, and the TPM has room for one key), with trees of any depth and chains of any length, any set of failing commands and any number of executions.
Those on PCPTool use `AttestationAssumption` (each PCR is in one of the blocks, the locality PCR does not start at ff), with any number of PCRs, blocks, events, boots and challenges.

1. **`IInv`** (`TbsTypeProof`): `TypeOK`, `ContextsInv` and `DispatchInv`. `TypeOK` alone is not inductive: that
   `EvictVictim` stores a well-typed blob needs that its victim exists and is of the kind that
   MakeSpace asked for, and that holds because of what was true when the victim was chosen. `DispatchInv` carries this
   through the phases. Theorems `Invariance` and `TypeCorrect`.
2. **`NamesInv`** (`TbsTypeProof`): what a step does to the list is one of three things: it drops nothing, it adds one context
   under a name that `GetFreeHandle` found free, or it only drops contexts. Theorem `NamesAreDistinct`, for all operations.
3. **`TruthInv`** (`TbsTruthProof`): a loaded context's handle reaches its own entity, a saved one's blob is of its own entity and
   current (`AllFaithful`); the handles in the command buffer reach what was meant (`BufferInv`); entities that
   `LoadEntities` has passed stay loaded (`ProgressInv`); a victim is not one that the command references (`SpareInv`). Each of these is needed for
   the others: the buffer stays valid because eviction spares, and eviction spares what is
   loaded because the database is true. Theorems `BufferStaysValid`, `NothingIsLost`, `LoadedContextsAreApart`.
4. **Refinement** (`TbsTruthProof`): `EachClientHasAPrivateTpm == Spec => PrivateSpec`. The view of a client is its
   contexts' names; eviction and reloading are stutters. The hard case is the response of a creation:
   `TbsHandleFromTpmHandle` searches the contexts of *all* clients, including those of saved sessions that
   still have a TPM handle, and `NewHandleIsUnclaimed` shows that it can only find the new one.
5. **`WholeInv`** (`TbsWholeProof`), the converse of `TruthInv`: every entity in TPM memory is the entity of a context that is marked as loaded (`Listed`); only the context that
   `LoadObject` is working on has the handle TPM_RH_NULL of a failed ContextLoad (`NullInv`); and `MakeSpace` finds no victim only in the command loop, and then there is none (`ChoiceInv`): a load
   pins at most the other references of the command, which are fewer than the slots, so something can be evicted. `SavedInv` adds that every session that the TPM tracks as saved
   is that of a context with its blob. Theorems `EverythingIsListed`, `SpaceIsThereUnlessPinned` (from `WholeInv`) and `DatabaseIsConsistent` (from both: the sets of handles are equal, hence their cardinalities).
   They assume `Managed`: besides what 3 asks, that the TPM can hold the `MaxRefs` objects or sessions that a command references (TPMs must hold three of each); and, of the behaviour,
   `[]GapOpen`: when the context gap closes, sessions that cannot be reloaded are left behind with TPM_RH_NULL, and `MakeSpace` gives up on a stale session although others could be evicted (`tbs_gap` shows it).
   The gap of `tbs_shared` is wide enough to stay open throughout the run. `DatabaseIsConsistent` assumes also that no client is disposed, because `DisposeContext` leaves its saved sessions in the TPM (see below).
6. **TSS.C++ dispatch** (`CppDispatchProof`): `LibraryAgrees` speaks of the time between commands only, so it is not inductive. `IInv` adds what is true in
   between: which phases have an answer on the wire, and that a command that only computes its cpHash never has one (`SentInv`); and that nonces, hierarchy value and audit count agree up to
   `lost` and up to what the answer under way will bring (`NoncesInv`, `AdminInv`, `AuditInv`). `AdminInv` is what the two-halved update rests on: after the TPM has executed
   `HierarchyChangeAuth`, its value is the one that `CompleteUpdateRequestHandles` will store. Theorems `CppTypeCorrect` and `LibraryAndTpmAgree`.
   `DispatcherKeepsContract == Spec => Invocation!Safety` maps each way out of `DispatchIn` to one action of `CppInvocation`; sending, RETRY and refused calls are stutters.
   `DispatchIsAuthorized == Spec => []AuthorizationHolds` needs no hypothesis; the property itself names what the code gets wrong (`Mishandled`), each case of which TLC shows to fail: an answer to `Clear` authorized with
   an HMAC session while the hierarchy has a value, a repeated `NV_ChangeAuth`, an HMAC session at the place of a handle that carries a value and is not authorized (the answer's HMAC is keyed by it, `Tpm2.cpp:203`, the request's is not, `:135`),
   and encryption by a session that is not the only one (its nonce goes into every HMAC). Its invariant `AuthInv` follows a command from its issue to the answer: the value it was issued with is the
   one the library still holds, the sessions it was sent with are those the TPM will check, and what was sent while nothing was lost is not refused.
7. **PCPTool attestation** (`PcpAttestationProof`): within a boot a PCR only grows, so its values are ordered (`Precedes`). `IInv` says for every value that the
   attester or the verifier holds where it stands in that order: what the attester read, and what the attestation of this boot holds, precedes the PCR;
   the attestation's values precede those at which the validation began (`began`), and these precede what the validation has read (`current`).
   Step 6 compares the first with the last; if they are equal, the value in between is equal, too (`Sandwich`), whatever was measured between the PCR_Read
   commands. `IInv` also carries that the replay matched up to the comparison. A reboot starts the PCRs anew, so the order is claimed for attestations of the current boot only.
   Theorems `PcpTypeCorrect` and `AcceptedIsTrue`; neither is inductive without the order and the sets of PCRs already read.
   `QuietIsAccepted` is `QuietPlatformValidates`. `QuietInv` says that the log accounts for the PCRs, up to the event that is measured and not yet logged (`LedgerInv`); that, as long as nothing is measured,
   what the attester took is still the log and the PCRs (`SnapshotInv`), so that the attestation is of one log (`Coherent`, `MadeInv`) and a verifier on that platform reads the same PCRs (`CurrentInv`). The lemma in the middle is `Filtered`:
   the filter drops events of other PCRs, and the log that is left replays to the same values of the PCRs that were asked for, provided that a startup locality is the first event (`Orderly`).
   `FilterLog` and `SoftPcrs` are recursive functions on the length of the log, and the induction over logs is one over a set in place of a predicate (`BySequences`), as in 10.
8. **Tpm2 dispatch** (`Tpm2DispatchProof`). `IInv` is the shape of the call stack: it is at most three deep, the application's command is the first, and what each activation waits for says which
   command stands on it, what `CurrentCommand` and `OuterCommand` are, and which results can come back to it; an exception is the only thing that a catch block has in its hands. A
   type invariant alone fails at every return, where the frame below decides what the result means. With the shape, `TypeCorrect`, `TrueIsDone` and `SessionsAreAlive` need only the one
   activation that is on top. They hold for every failure of the library's own commands and of the device, but assume `NestedUnlimited`:
   the TPM does not answer NV_RATE to the library's own commands, for then the stack has no such shape (the nested command takes itself for the outermost). With it, the properties are model-checked (`dispatch_faults`).
9. **One-shot modifiers** (`Tpm2OneShotProof`). `RInv` accounts for each session of the library: those in the TPM are the ones in `TempSessions` that are not flushed yet and the one
   being started or flushed (`Held`), by the depth of the stack and the place of the innermost activation; and it compares the modifiers in the object with what was asked of the command (`Asked`), which differ where the library sets
   `AllowErrors` for a command of its own. Theorems `SessionsAreAccountedFor`, `SessionsAreFlushed` and `ModifiersAreForOneCommand == ... => ModifiersAreOneShot`, the refinement of `OneShot`, in which every nested command is a stutter.
   They assume `Reliable`: starting and flushing a session fails only for a reason and is not cancelled more often than it is attempted, the TPM knows SHA384, and `NestedUnlimited`. A TPM that has no session left for a command
   is not excluded: the command then fails, and flushes the sessions of those that were not sent. Where one of these does not hold, TLC refutes the refinement (`dispatch_errors`).
   `OneShot` leaves no modifier behind (`Fresh`), except in two actions that spell out what the code does against its comment at `Tpm2.cs:205`: `GivenUp` (a command whose preparation fails keeps `CpHashMode` and
   `DoNotDispatchCommand` for the next one) and `SkipHalf` (a command with both requests serves the first and keeps the second).
10. **Policies** (`CppPolicyProof`). `GetPolicyDigest` and `Execute` are recursive functions on the numbers of chains. The prover cannot instantiate induction over a predicate, so the module does it with a set in its place:
   a set of naturals has a least element (`Least`), and one that contains 0 and each successor reaches every n (`Reaches`). With this, both recursions are shown to define a function (`AccumulationExists`, `RunsExist`), and
   `FlattenSeqIn` and `ExecuteChainIn` show that a set of sequences which is closed under concatenation and contains the commands of each assertion contains every execution. The first use is `Whole`: an execution loads a key,
   uses it and flushes it, one after the other. `IInv` says that what is left in `todo` is the rest of such a sequence, and that, besides those left behind (`exec.left`), a key is loaded exactly where the rest begins with a use of it (`KeysInv`). Theorems `PolicyTypeCorrect` and `KeysAreGivenBack`.
   The second use is `Leads`: what each assertion's commands do to a session digest is what `UpdatePolicyDigest` does in software, PolicyOR and PolicyAuthorize included, which do away with what came before. `LeadsInv`: as long as an execution that began on a new session goes well,
   what is left of it leads from the session's digest to `GetPolicyDigest`. At the end nothing is left, which is `SuccessIsSatisfaction`. It assumes `ApprovedOnly`: a PolicyAuthorize does not fail and its policy is the approved one, for otherwise
   its failure goes unnoticed and SUCCESS means nothing (below).
   `MarksAreRight` states `SendsWhatIsWanted` for policies of which no branch asks for both an HMAC and a password (`[]AsksOnce`): the TPM goes by the later of the two assertions, the library sends the password whenever one was marked. `AsksOnce` and `ApprovedOnly` hold in `cpp_policy`.

The theorems of 3, 4 and 5 assume `Ops \cap BypassOps = {}`, with `BypassOps` = EndSession, FlushContext, ContextSave,
Clear and PowerCycle. Those operations change the TPM without Tbs noticing: a session ended by the TPM stays in the list, a flush is
not translated, ContextSave is executed although Tbs means to refuse it, Clear and PowerCycle evict
the entities of all clients and drop the contexts of one. TLC refutes the conclusions as soon as one of them is allowed,
so the assumption is needed and not a convenience; it says under which use the manager keeps its promise.

Only model-checked: `DispatchEnds`, `CallReturns` and the liveness part of `CppInvocation` (liveness under fairness is out of the prover's reach), and the three refuted statements. Every invariant and
action property of the passing runs is the subject of a theorem, some under hypotheses that the item above names.

## Observed, without a run

Found while modelling, and seen in the model, but not kept as a run: after a client's `TPM2_Clear` the database
lists objects of other clients that are gone, against the assertion at `SlotManager.cs:878`; the assertion at `:384` (empty database
after a power cycle) fails when another client has an object; a session that the TPM ended stays the stalest
victim and its failing `ContextSave` makes `MakeSpace` give up although others could be evicted; a session that was
re-saved keeps a TPM handle although "EntityHandle is null if the entity is not loaded"
(`SlotContext.cs:208`).

In Tbs, against their summaries: `DisposeContext` leaves context-saved sessions in the TPM (`SlotManager.cs:568`, "Removes all TPM objects" `:556`);
`GetOldestSavedSession` takes the first of the list, not the oldest (`SlotContext.cs:185`, `SlotManager.cs:667`); a successful command does not
refresh `LastUseCount`, so the victim is not the least recently used entity (`SlotManager.cs:307`, `:127`).

In `Tpm2.cs`: the audit digest is extended by the library's own nested commands too (`:1148`), for the flag is cleared only by the outer one; the path
through the warning handler clears the command context twice (`:1407` and `:1206`), after which `LastCommand` is `None`; the error handler is called for an
unexpected success only (`:1307`); `_GetCpHash` and `_DoNotDispatchCommand` leave implicit sessions in the TPM until a command is really
sent, so that using them in a row exhausts the session handles, and the next command fails for it; both flags survive a command whose preparation fails (`:921`), and the second one survives a command with both, although they are for
"the next command" (`:205`, `:596`, `:793`); NV_RATE on a nested ReadPublic makes it flush the sessions that the library created for the application's command, and clear the sessions and modifiers of that command, which is then sent without sessions, or, if one of the flushes fails, with a session that is gone,
against "Session data must not be cleared for nested commands" (`:1586`); a temporary session that cannot be flushed (`:1167`) leaves `CurrentCommand` and the sessions in force, against the comment at `:205`, which is
put right by chance only, by a nested command of the next call; and an unexpected success skips `ProcessResponseSessions`, so that the session's TPM nonce is out of date.

In `Tpm2.cpp`: a repeated `NV_ChangeAuth` authorizes itself with the new value, because `UpdateRequestHandles` is applied before the answer is known (`:331`, against the comment at `:483`);
the answer to a `Clear` authorized with an HMAC session of lockout fails validation, since its handle in `InHandles` keeps the old value;
so does the answer to a command with an HMAC session at the place of a handle that needs no authorization but carries a value, such as NV_ReadPublic, or NV_Read with a second session (`:203` against `:135`); the nonce of a separate decrypting or encrypting session goes into every session's HMAC (`:148`; TSS.Net puts it into the first only);
an `EncSession` found for a command that was not completed stays set, and a command without sessions then "decrypts" a plain response; modifiers and sessions stay in force after the exceptions for a pending command, for auditing that is not enabled and for a device that throws;
an asynchronous completion swallows RETRY and returns an empty response; a modifier called while a command is pending applies to that command; the HMAC in the answer to a policy session is not checked; `_AllowErrors` does not stop the exception for an unexpected success.

In `TpmPolicy.cpp`: a failing `PolicyAuthorize` goes unnoticed, the code tested at `:539` is still that of `VerifySignature`; branches of a nested PolicyOR cannot be executed and a PolicyOR
that is not last is never rejected (`typeid` of pointers, `:117` and `:143`, against the comment at `:210`); the marks of `PolicyAuthValue` and `PolicyPassword` outlive `PolicyRestart`; a second `Execute` on a session that an exception left half-way
returns SUCCESS with another digest; a refused `PolicySigned` leaks its key, and so does a failing `FlushContext`; two exceptions are thrown as pointers.

In PCPTool: without an AIK, a validation after a reboot can accept PCR values that were torn in the first boot; such a validation ignores PCRs for which nothing is logged; an attestation whose filtered log has no entry
can be made and is never accepted; the nonce is compared only when it has 20 bytes.

## Not modelled

In Tbs: `Tbs.Dispose` and the pass-through device calls (no state), the handle-count queries, `tpmHasRm` (the
constructor is modelled as cleaning the TPM), the failure of `GetFreeHandle` after 1000 draws, and crashes of the
host process: the database is in memory only and nothing survives one.

In TSS.C++: names of handles (`UpdateRespHandle`), bound sessions, session keys and policy sessions in the dispatcher (they are in `CppPolicy`), `_SetResponseCallback`, a password session that authorizes no handle (its value may be read past the end of `InHandles`), the JSON form and the callbacks
of policies, tickets and expirations. `TpmDevice.cpp` is the sequential use of a socket; its connection handling has no state that outlives a call except the socket.

In PCPTool: TPM 1.2, key attestation and activation, attestations rebuilt from archived logs (`TpmAttCreateAttestationfromLog`), and errors of single calls, which end the attester without an attestation.

How much of the code that is: most C and C++ lines of the repository are OpenSSL headers (twice, for two platforms) and the generated `TpmTypes.*`, 26000 lines of one class per TPM structure without control; the C# lines come on top of those.
What is mapped is the control of `Tpm2.cpp`, `TpmPolicy.cpp` and the platform attestation almost completely, and of `SlotManager.cs`, `SlotContext.cs` and the dispatching half of `Tpm2.cs`. The other components: see the inventory.

## Plan

1. Tbs: done.
2. `CppDispatch`: done. The cases that `Mishandled` names go as the code is mended, and `AuthorizationHolds` is then the regression check.
3. `Tpm2Dispatch`: done.
4. `CppPolicy` composed with `CppDispatch`: the policy's commands as commands of the dispatcher, with `_AllowErrors` as its modifier.
5. `TcpDevice`: `TcpTpmDevice` with its cancel protocol and a canceller thread; with Tbs on top, whose `CancelContext` takes the lock that
   the command holds. `JsDispatch`: the asynchronous dispatch of TSS.JS. `NetProxy`: the two forwarding threads.
6. `LinuxTpmDevice` retries, the length fix-up of the marshaller, key attestation in PCPTool.
