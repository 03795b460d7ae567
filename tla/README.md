# key-protecc in TLA+

key-protecc is a command-line program that keeps ECDSA P-256 signing keys in
the hardware of the machine: a TPM 2.0 on Linux and Windows, the Secure
Enclave on macOS. This directory holds a specification of its behaviour, the
TLC runs that check it on small instances, and TLAPS proofs of its main
properties for every instance.

## Inventory

| component | source | state it keeps | operations |
|---|---|---|---|
| backend contract | `key.go`, `signCloser` in `main.go` | names bound to keys; an open signer | createKey, loadKey, deleteKey; Sign, Close |
| Linux key store | `key_linux.go` | one blob file per key in the store directory, temporary files, what the disk holds of both | createKey, loadKey, deleteKey, writeBlob, readBlob |
| Linux TPM session | `key_linux.go` | the open device, transient handles, `success`, the deferred calls | openTPM, createPrimary, Create, Load, flush, Close |
| Linux signer | `key_linux.go`, `tpmSigner` | `mu`, `tpm`, `handle`, the message in the device | Sign, Close |
| Linux blob codec | `key_linux.go`, `writeBlob`, `readBlob`, `readChunk` | none | encode, decode |
| macOS key store | `key_darwin.go`, `keychain_darwin.c` | the keychain's items and their tags | createKey, loadKey, deleteKey |
| macOS signer | the same, `enclaveSigner` | `priv` | Sign, Close |
| Windows backend | `key_windows.go`, `syscall_windows.go` | NCrypt provider and key handles, persisted keys | createKey, loadKey, deleteKey, Sign, Close |
| commands | `main.go`, `cert.go` | the name, the open signer, the exit status | create, delete, certtest |
| report, system facts | `report.go`, `osinfo_*.go` | none | print |
| benchmark, build | `cert_bench_test.go`, `macos/`, `Taskfile.yml` | none | |

**How they interact.** A command runs in a process of its own. It calls
createKey or deleteKey of the one backend the build contains, and certtest then
calls Sign through x509 and directly, and Close and deleteKey in a deferred
function. Processes share nothing but the key store: a directory, a keychain, a
provider. No lock protects it. Within a process the signer is a
`crypto.Signer`, which TLS and x509 call from many goroutines at once (the
benchmark does); they share one device, and on Linux a mutex. A backend call is
a sequence of system calls and TPM commands with deferred clean-ups, and
another process, an error, a kill or a power loss can come between any two.

**What is hard**, and the property that says it must not go wrong:

* two creates of one name, a create and a delete of one name, running together
  (`NeverClobbered`, `AckedIsAvailable`, `NamesAreUnique`);
* a call that fails half-way: files, handles, keychain items that must go, and
  others that must stay (`NothingLeftBehind`, `FailureReleases`, `NothingLeaks`,
  `SignerIsReady`, `NoOrphans`, `NoHandleLeaks`);
* references and handles that must be given back once, by their owner, and not
  while they are in use (`ReleasedOnce`, `HandlesAreOwn`);
* kills and power losses between two steps (`PublishedIsComplete`,
  `SettledSurvives`, `BuriedStaysGone`, `DeletedKeyGone`);
* a clean-up or a delete that goes by name and could meet another's key
  (`AckedIsAvailable` of the keychain, `NeverClobbered`);
* Sign and Close from many goroutines on one file descriptor
  (`ResponsesNotCrossed`, `DeviceHeldWhileUsed`, `EveryCallReturns`);
* a TPM with room for very few objects (`TwoHandlesSuffice`);
* a key file that was cut or corrupted (`ReadsStayInFile`, `OnlyWholeBlobsDecode`);
* commands that end in the middle, and users who must not meet the key of a
  running certtest (`ThrowawayDeleted`, `ExitZeroMeansDone`, `CerttestIsAlone`,
  `EveryCommandExits`).

PROJECT.json lists these hazards line by line.

## Modules

| module | what it is |
|---|---|
| `KeyStore` | abstract: names bound to keys, calls that take effect at one instant |
| `DurableStore` | abstract: `KeyStore` on a machine that may lose power |
| `LinuxStore` | the Linux key store, one action per system call; implements `DurableStore`, and `KeyStore` while the power stays on |
| `LinuxStoreProofs` | its proofs |
| `Signer` | abstract: Sign and Close that take effect at one instant |
| `TpmSigner` | the Linux signer, one action per command or response; implements `Signer` |
| `TpmSignerProofs` | its proofs |
| `TpmSession` | device, handles and deferred calls of createKey, loadKey and Close |
| `TpmSessionProofs` | its proofs |
| `BlobCodec` | the format of a key file, and readBlob and readChunk on it |
| `BlobCodecProofs` | its proofs |
| `DarwinKeychain` | the macOS key store and signer, one action per framework call; implements `KeyStore` for users who keep off each other's names |
| `DarwinKeychainProofs` | its proofs |
| `WindowsStore` | the Windows key store and signer, one action per CNG call; implements `KeyStore` |
| `WindowsStoreProofs` | its proofs |
| `Commands` | create, delete and certtest on top of `KeyStore` |
| `CommandsProofs` | its proofs |
| `MCLinuxStore`, `MCTpmSession`, `MCDarwinKeychain`, `MCWindowsStore`, `MCCommands` | instances for TLC: the symmetry sets |

`Commands` EXTENDS `KeyStore`: the commands call the abstract store and not a
backend, which is sound for Linux and Windows because `LinuxStore` and
`WindowsStore` implement it. On macOS it is sound for exclusive users, whose
lookups do not fail: while a createKey runs, nobody else uses its name
(`Exclusive` in `DarwinKeychain`). A certtest is such a user for as long as it
runs, because its name is its own (`CerttestIsAlone`); create and delete are
when their users keep apart. `keychain_race` shows what happens when they do
not, and `keychain_undo` what happens when a lookup fails.

The constant `MayOrphan` of `KeyStore` is what the backends differ in. On Linux a
createKey that returns an error has had no effect. On Windows one whose export
fails (`key_windows.go:87`), and on macOS one whose clean-up fails
(`key_darwin.go:67`), return an error and leave their key bound to the name: the
action `Orphan`. It is enabled where the key was bound before (Windows, where
others can see it until the export fails) and where it is bound only then
(macOS). `LinuxStore` implements `KeyStore` with `MayOrphan` FALSE, the other two
with TRUE, and `Commands` is checked and proved with it.

**Mutants.** An operator whose name starts with `Mut` is a wrong variant of the
definition after it: a dropped guard, a skipped step, a swapped clean-up. No
specification uses it. With the definition's body replaced by its use, the
property that PROJECT.json names beside it fails, which shows that the run would
notice such a change of the code.

### LinuxStore

A process runs at most one call at a time; `pc[p]` is its next system call. The
steps of a create are `Stat` (the duplicate check), `TpmCreate` (everything
from openTPM to eccPublicKey), `CreateTemp`, `WriteTemp`, `SyncTemp`,
`LinkBlob` (the commit), `RemoveTemp`, `SyncDir`, `Return`; an error in writeBlob
after CreateTemp goes through `Cleanup`, the deferred function. A load is
`ReadBlob` and `Unwrap`, a delete is `RemoveBlob`.

A key is the createKey attempt that makes it. Because an attempt writes to one
temporary file, the inode is identified with the key as well: `path[n]` is the
key whose inode is at `blobPath(n)`, `temp` the keys with a temporary name,
`data[k]` what the inode holds. `dpath` and `dtemp` are the directory on disk;
the kernel may write any entry back at any moment (`WriteBackPath`,
`WriteBackTemp`), and at a power loss the directory becomes what the disk holds,
and files that were not synced may come back torn. `storeDir` tells whether
the store directory's own entry is on disk; nothing in the code syncs it, so it
becomes durable when the kernel pleases (`WriteBackDir`). That is what POSIX
promises; some file systems promise more.

`linked`, `acked`, `settled`, `deleted`, `buried` and `abandoned` are history:
nothing reads them but the properties (and `issued` of the refinements). A
deleted key is `buried` when a later sync of the directory has found it under
no name. A key is `abandoned` when its createKey was not let finish: its process
was killed, its os.Remove failed, or a power loss ended it or undid its remove.

`DurableStore` is what the store promises across power losses: beside the store
that processes see there is the one on the disk, `dpath`, which a power loss
gives back as a whole; a successful directory sync brings it up to date, the
kernel does so entry by entry. So what comes back was once bound by a createKey
that had committed; that it comes back whole is `PublishedIsComplete`.

`Faults` says what may go wrong: `"io"` (any system call or TPM command fails;
a failed write leaves a prefix, a failed sync may have synced), `"remove"`
(os.Remove of the temporary file fails, which the code ignores), `"kill"`,
`"power"`.

Abstracted: the contents of the blob (whole, torn or synced), permissions,
the encoding of names into file names (injective, so a name is its file), the
single TPM commands (`TpmSession`).

### TpmSigner

A goroutine in Sign goes through `CheckRequest` (before the lock), `Lock`,
`CheckClosed`, `SendSign`, `ReceiveSignature`, `Unlock` (deferred), `Return`; in
Close through `Lock`, `CheckClosed`, `SendFlush`, `ReceiveFlushed`,
`CloseDevice`, `Unlock`, `Return`. `wire` is the one message the device holds: a
write replaces it, whoever wrote it, and the next read takes it. This is the
pessimistic reading of a file descriptor that two goroutines use at once (the
kernel may also refuse the second write); the mutex makes both readings the
same, and without it the mutants show crossed responses.
`Execute` is the TPM. With `DeviceFails` every write, command, response and close
may fail; a read that fails may take the response or leave it in the device
(`ReadResponse`), where the next write replaces it. Goroutines call Close any
number of times. `flushLost` is history: a flush could not be sent, or the TPM
refused it. A flush whose response was lost is not among them, because the key
is gone then all the same; so `CloseReleases` can say of a raw device when exactly
the key is still there.

### TpmSession

A session is one process from its createKey or loadKey to the Close of the
signer it got. The deferred calls run in their order: flush the parent, then, if
`success` is false, flush the child and close the device. The sessions in `Raw`
have KP_TPM_DEVICE name a raw TPM (`/dev/tpm0`): their handles are the TPM's
own, one of them has the device open at a time, and closing it flushes nothing.
The others use `/dev/tpmrm0`, where each has handles of its own that closing the
device clears. `Exit` ends the process anywhere: a kill, or `log.Fatalf`. A
command that loads an object may fail in the TPM, or after it (`"response"`):
then the object is there and nobody has its handle. `lost` is history: the
handles whose flush failed, those of which no response told, and those whose
process ended on a raw TPM. The four fault kinds and both devices are one
instance, so that a session on the resource manager is shown not to suffer from
a raw one.

### BlobCodec

A file is what the reader can tell of it: the lengths of the two blobs written
to it, its size, and whether its bytes are still the written ones. `ReadMagic`,
`ReadVersion`, `ReadPub`, `ReadPriv` and `Unmarshal` are the steps of readBlob;
`ReadChunk` is readChunk, with `Exceeds` its comparison. In an intact file a
length field holds the length that was written; in a corrupted one, and anywhere
the reader should not look, `WordsAt` gives any unsigned word. The property
`ReadsStayInFile` is about the buffer that readChunk makes, which the code makes
before it reads. The contents of the blobs are abstracted: tpm2.Unmarshal gives
back what was marshalled and makes anything of other bytes.

### DarwinKeychain

The keychain is `tag[k]`, the application tag of every private key. `CheckName`
is the kp_load_key that guards createKey, `MakeKey` kp_create_key, `Export`
copyPublicKey, `Undo` the deferred clean-up. A lookup returns any match, a
deletion removes all of them, as the comment at `key_darwin.go:41-45` says and
the query built by `make_query` asks for. `retained[p]` counts the SecKeyRefs
that p has got and not released: the one of kp_create_key or kp_load_key, which
the clean-up releases or the signer owns until its Close. CheckName releases
what it finds at once. A clean-up whose deletion fails leaves its key, which
`orphans` remembers; the caller gets an error like any other. `BeginSign` and
`EndSign` enclose a kp_sign, `Close` is enclaveSigner.Close; a second Close finds
`priv` cleared and does nothing, so it is no step. Nothing in Close waits for a
running Sign. That no Close runs beside one is what the signer's users see to
(`main.go:99-100`, `cert_bench_test.go:21-22`), and the guard of `CloseSigner`, which
is the users' step, says so.

`ExclusiveSpec` are the behaviours of users who keep off each other's names
while a createKey runs. They have the store of `KeyStore` with `MayOrphan`: a key
counts as bound once it is `Issued`, acknowledged or left by its clean-up, which
is `KeyStore`'s `Orphan`.

### WindowsStore

A caller is a goroutine; `pc[c]` is its next call to CNG. `object[h]` is what the
handle h denotes: the provider, a key, or nothing, and then it may be given out
again. `store[n]` is the key persisted under n. `OpenProvider`,
`CreatePersistedKey`, `SetProperty`, `FinalizeKey` and `ExportPublicKey` are
createKey; `OpenKey` is shared by loadKey, which goes on with `ExportPublicKey`,
and deleteKey, which goes on with `DeleteKey`; `FreeKey` and `FreeProv` are the
deferred frees, in their order. NCryptDeleteKey frees the
key handle when it succeeds and not when it fails (`key_windows.go:152-157`):
`DeletePersisted` and `DeleteFails`. The conversions
of strings before a call fail as a part of that call.

`BeginSign` and `EndSign` enclose the two NCryptSignHash calls of a Sign, which does
not look whether the signer is open: on a closed one it uses the handle 0, and
CNG refuses. `CallClose`, `CloseKey` and `CloseProv` are Close, which may be called
again and frees only what is not 0. As on macOS nothing in them waits for a
Sign; `CloseSigner` and `DropSigner` are the users, who close a signer, and forget
it, when their Signs have returned.

Two things about the platform provider are assumptions, taken from how the code
uses it: NCryptFinalizeKey refuses a name that was taken since
NCryptCreatePersistedKey, and NCryptDeleteKey of a key that is gone fails. `made`
keeps new keys new; `persisted` is history for the refinement. A create takes
effect in NCryptFinalizeKey; when its export fails it goes on to the error of
`KeyStore`'s `Orphan`.

### Commands

`Backend` lets the called store decide at any time; `FinishCreate`,
`FinishDelete`, `BeginTest`, `SignOnce`, `Verify`, `CloseAndDelete` and
`FinishTest` are the command's own steps. `Backend` includes `Orphan`, so that a
create may fail and leave its key. `Exit(p, "fatal")` is log.Fatalf: the
deferred function does not run. `Kill` ends a process anywhere, in the middle of
a call too, and `Reap` lets another command run in its place. A random uuid is
one that nobody has drawn before, and a user can only name what he chose or what
was printed. `printed` gains certtest's name when its deletion fails, because
the warning prints it. `effect` and `removed` are history: the key that a
command has last bound or unbound, and the keys that were ever unbound.
`ExitZeroMeansDone` reads them, and so says of each command what became of its
very key. The signing loop has `SignOps` rounds, 20 in the code and 2 in the
runs: the rounds are alike, and 2 distinguishes the first from the last.

## Runs

Each run is a cfg of the same name.

| run | instance | shows |
|---|---|---|
| `store_faults` | 2 processes, 1 name, 2 keys; io, remove, kill; fair | `TypeOK`, `AckedIsAvailable`, `NothingLeftBehind`, `DeletedKeyGone`, `NeverClobbered`, `ImplementsKeyStore`, `DeletedKeyVanishes` |
| `store_power` | 2 processes, 1 name, 2 keys; io, kill, power | `PublishedIsComplete`, `SettledSurvives`, `BuriedStaysGone`, `ImplementsDurableStore` |
| `signer` | 3 goroutines, 3 requests, one refused; failures, raw device; fair | `TypeOK`, `ResponsesNotCrossed`, `DeviceHeldWhileUsed`, `CloseReleases`, `ImplementsSigner`, `EveryCallReturns` |
| `session` | 2 sessions on a raw TPM, 1 on the resource manager, 3 handles; command, response, flush, exit | `SignerIsReady`, `FailureReleases`, `NothingLeaks`, `TwoHandlesSuffice` |
| `codec` | public blobs of 0, 1, 3 bytes, private of 0, 2; words of 4 bytes with 32 values; cut anywhere, extended by 2 bytes, corrupted | `TypeOK`, `ReadsStayInFile`, `OnlyWholeBlobsDecode` |
| `keychain_apart` | 3 exclusive processes, 2 names, 3 keys; create, export, delete | `TypeOK`, `NamesAreUnique`, `AckedIsAvailable`, `ImplementsKeyStore` |
| `keychain_many` | 3 processes, 2 names, 3 keys; every fault | `NoOrphans`, `ReleasedOnce` |
| `windows` | 2 callers, 2 names, 3 keys, 4 handles; every fault | `TypeOK`, `HandlesAreOwn`, `NoHandleLeaks`, `ImplementsKeyStore` |
| `commands` | 2 processes, 3 names of which 2 uuids, 2 keys; create, delete, sign, verify, kill, orphaning creates; fair | `CTypeOK`, `SigningKeyIsBound`, `CerttestIsAlone`, `ExitZeroMeansDone`, `NamedKeysAreKept`, `EveryCommandExits` |
| `keychain_race` | 2 processes, 1 name, 2 keys; no fault | `NamesAreUnique` fails |
| `keychain_undo` | 2 exclusive processes, 1 name, 2 keys; lookup, export | `AckedIsAvailable` fails |
| `commands_orphan` | 2 processes, 3 names of which 2 uuids, 2 keys; sign | `ThrowawayDeleted` fails |

The runs with a fairness condition also check liveness, and therefore use no
symmetry.

**Bounds.** `Keys` bounds the createKey attempts that reach the TPM: each takes
a new key, and one that finds none left fails, like any attempt whose TPM
command fails. Two keys and two processes are what it takes for two attempts at
one name; a third process adds a delete or a load in between. A second name, in
`keychain_apart`, `keychain_many` and `windows`, shows that clean-ups and deletions
do not reach across names. `store_faults` has one, because it is about liveness
too and so uses no symmetry: a file is found by its name alone, and the proofs
are for any set of names. The calls of a
process are not bounded: it returns and calls again. Two transient handles are
the number `TwoHandlesSuffice` is about; the third is there to be lost. Two raw
sessions make one that waits for the device, or finds what the other has left.
Two callers of the Windows backend hold four handles at most, so with four a
call can succeed beside any other and none is left over; a freed one is soon
given out again, which is what `HandlesAreOwn` is about. `MaxSigns` bounds the
Signs that run at once on one signer; they do not touch each other. A word of
the codec has 32 values, enough to be shorter than, as long as and longer than
what is left of any file of the run, and to have a sign bit.

**Why the fault sets differ.** A property is checked under all the faults under
which the code can be expected to keep it. `AckedIsAvailable` of the store and
`DeletedKeyGone` cannot survive a directory that was not synced, so they are
about a machine that keeps its power; `SettledSurvives`, `BuriedStaysGone` and
`ImplementsDurableStore` say what is left of them when it does not. A kill or a
failing os.Remove leaves a temporary file, and no more than that:
`NothingLeftBehind`, `DeletedKeyGone` and `DeletedKeyVanishes` are about all
keys that are not `abandoned`. `store_power` leaves out `"remove"`, which loses
nothing that a kill at the same place does not. `keychain_apart` leaves out
`"lookup"`, because a lookup that fails lets even one process make two keys of
one name, of which a failing export then takes both (`keychain_undo`);
`keychain_many`, `session` and `windows` have every fault: what a failing flush,
a lost response, a failing SecItemDelete or the end of a process leaves is in
`lost` or `orphans`, and the properties say that it is no more than that.
`signer` has a raw device, on which the flush matters; the resource manager
frees the key whatever becomes of the flush, and its case is proved
(`CloseIsComplete` and the others, for both devices). `commands` lets any create
leave its key, which on Linux none does; what the commands do on a Linux store
is a part of what it checks. `codec` stops when readBlob returns, so its cfg
does not check for deadlock.

**Fairness.** `store_faults`: a process that is not killed takes its next step
(weak fairness of each process's steps). A call is not forced to start.
`signer`: goroutines that can go on do and the TPM answers (weak fairness);
sync.Mutex is not starving, because it hands itself to a goroutine that has
waited for a millisecond, so taking the lock is strongly fair. `commands`:
processes run and the backend answers (weak fairness of `Run`); that the next
command starts is not assumed.

## Where the code and its comments disagree

Three runs end with a counterexample:

* `keychain_race` (`NamesAreUnique`): two processes pass the check at
  `key_darwin.go:47` before either makes its key. `:41` says createKey fails on a
  pre-existing name.
* `keychain_undo` (`AckedIsAvailable`): an error of the lookup at `key_darwin.go:47`
  counts as "no such key", so one process is enough to make a second key of a
  name. When that key cannot be exported, the clean-up (`key_darwin.go:67`) deletes by
  name, and the acknowledged key goes too. `:41` says createKey fails on a pre-existing
  name, and `:60-61` that the persisted key must be removed: that one.
* `commands_orphan` (`ThrowawayDeleted`): certtest's log.Fatalf skips the
  deferred deleteKey. `main.go:46-47` says the key is then deleted.

Limits that the same models show, with the fault that brings them out. No run is
about them; the properties make an exception of them, or an assumption:

* `LinuxStore` with `"kill"`: a createKey that is killed between the link
  (`key_linux.go:440`) and the remove of the temporary name (`:443`) leaves the
  wrapped key with two names, and deleteKey removes one. `:202-203` says that the key
  only exists in the TPM and in the blob, so that removing the file is sufficient;
  of a kill it says nothing. Such keys are `abandoned`, and `DeletedKeyGone`
  without that exception fails.
* `LinuxStore` with `"power"`: the first createKey makes the store directory
  (`key_linux.go:407`) and syncs it, but nothing syncs the directory above, which
  holds its entry; a power loss can take the directory and an acknowledged key,
  though every sync succeeded (`AckedIsAvailable` fails). `:446-447` calls the sync
  best-effort. This is why `SettledSurvives` asks for a directory that was on disk.
* `WindowsStore` with `"export"`: a createKey whose export fails
  (`key_windows.go:87`) frees its handles and returns an error, but its key stays
  persisted under the name: `KeyStore`'s `Orphan`. No comment promises otherwise.
* `DarwinKeychain` with `"export"` and `"delete"`: `key_darwin.go:33-34` says that no
  orphaned item is left behind; when the deletion of the clean-up fails, one is.
  Such keys are `orphans`.
* `WindowsStore` and `DarwinKeychain`: their signers have no mutex. That no Close
  frees the key under a Sign rests on the users, who close a signer after their
  Signs (`main.go:99-100`, `cert_bench_test.go:21-22`); the guard of `CloseSigner` in
  both modules says so. Without it `HandlesAreOwn` and `ReleasedOnce` fail.
* `LinuxStore` with `"power"`: deleteKey does not sync the directory, so a power
  loss can bring a deleted key back (`path[n]` is in `deleted` again), but only
  until a createKey has synced the directory (`BuriedStaysGone`).

## Proofs

TLAPS checks, for any number of processes, names, keys, goroutines, requests,
sessions, handles, Signs and rounds, and for blobs and words of any size:

| theorem | under | says |
|---|---|---|
| `LinuxStoreProofs!TypeCorrect` | any faults | `TypeOK` |
| `PublishedBlobsAreComplete` | any faults | `PublishedIsComplete` |
| `SettledKeysSurvive` | any faults | `SettledSurvives` |
| `AckedKeysAreAvailable` | no power loss | `AckedIsAvailable` |
| `NoKeyIsClobbered` | no power loss | `NeverClobbered` |
| `Refinement` | no power loss | `ImplementsKeyStore` |
| `DeletedKeysAreGone` | no power loss | `DeletedKeyGone` |
| `DeletedKeysVanish` | no power loss | `[][VanishesForGood]_vars` |
| `BuriedKeysStayGone` | any faults | `BuriedStaysGone` |
| `NothingIsLeftBehind` | any faults | `NothingLeftBehind` |
| `DurableRefinement` | any faults | `ImplementsDurableStore` |
| `TpmSignerProofs!TypeCorrect` | any device | `TypeOK` |
| `NoCrossedResponses` | any device | `ResponsesNotCrossed` |
| `NoUseAfterClose` | any device | `DeviceHeldWhileUsed` |
| `CloseIsComplete` | any device | `CloseReleases` |
| `Refinement` | any device | `ImplementsSigner` |
| `NoVainWait` | any device | `NobodyWaitsInVain` |
| `CallsDescend` | any device | `[][Descends]_vars` |
| `TpmSessionProofs!TypeCorrect` | any faults and devices | `TypeOK` |
| `ReturnedSignersAreReady` | any faults and devices | `SignerIsReady` |
| `FailuresRelease` | any faults and devices | `FailureReleases` |
| `NothingIsLeaked` | any faults and devices | `NothingLeaks` |
| `TwoHandlesAreEnough` | any faults and devices | `TwoHandlesSuffice` |
| `BlobCodecProofs!TypeCorrect` | any file | `TypeOK` |
| `NoReadBeyondTheFile` | any file | `ReadsStayInFile` |
| `WholeBlobsDecode` | any file | `OnlyWholeBlobsDecode` |
| `WindowsStoreProofs!TypeCorrect` | any faults | `TypeOK` |
| `NoForeignHandles` | any faults | `HandlesAreOwn` |
| `NoLeaks` | any faults | `NoHandleLeaks` |
| `Refinement` | any faults | `ImplementsKeyStore` |
| `DarwinKeychainProofs!TypeCorrect` | any faults | `TypeOK` |
| `ReferencesAreReleasedOnce` | any faults | `ReleasedOnce` |
| `NoOrphanIsLeft` | any faults | `NoOrphans` |
| `UniqueNames` | exclusive users, lookups do not fail | `NamesAreUnique` |
| `AckedKeysAreAvailable` | exclusive users, lookups do not fail | `AckedIsAvailable` |
| `Refinement` | exclusive users, lookups do not fail | `ImplementsKeyStore` |
| `CommandsProofs!TypeCorrect` | anything fails | `CTypeOK` |
| `SigningKeysAreBound` | anything fails | `SigningKeyIsBound` |
| `CerttestsAreAlone` | anything fails | `CerttestIsAlone` |
| `ExitZeroIsTrue` | anything fails | `ExitZeroMeansDone` |
| `OnlyDeleteUnbinds` | anything fails | `NamedKeysAreKept` |
| `CommandsDescend` | anything fails | `[][Descends]_cvars` |

Each module's theorems assume the one named assumption of the module they are
about (`LinuxStoreAssumption` and so on): the special values are not names, keys,
goroutines, requests or handles, and the fault sets are made of the faults that
the module lists. TLC evaluates each assumption in every run of its module.

**The invariant of the store.** None of the properties is inductive. `IInv`
adds, in named parts, what a process at each step knows of its key: `CallInv`
(its name, its key and its result fit where it is), `OwnKeys` (two creates never
have the same key, so nobody else touches my inode), `DataInv` (what is linked
or about to be linked is synced), `LinkInv` (a key that its createKey has not
committed is linked nowhere), and `AckInv`, `SettledInv`, `DeletedInv`, `LeftInv`,
which follow a key from its link to its acknowledgement, its directory sync, its
deletion and its burial. What needs the power to stay on has that as a hypothesis, so
that one invariance proof serves all theorems. There is one lemma per action,
and `DirectoryFrame` for the actions that leave the directory and the history alone.

**The invariant of the signer.** `MutexInv` is its heart: whoever is between
`Lock` and `Unlock` is the goroutine that `mu` names. What `DeviceInv` and the
properties say of a goroutine that uses the device is then not disturbed by the
others. `DeviceInv` also says of a Close that has its response, or
closes the device, that a key which is still loaded had its flush lost or refused;
what `CloseReleases` says of the end follows from it.

**The invariant of the sessions.** `SpaceInv`: what is loaded where a session
has its device open, and is not lost, is exactly what the session still has to
flush or will hand to its signer (`Held`). `RawInv` says that nobody else has a
raw device open meanwhile. Everything else follows; `TwoHandlesSuffice` because
`Held` has at most one element where a command loads another.

**The invariant of the codec.** `Progress` relates the position of the reader to
the place where writeBlob has put what is read next, so that an intact file is
only refused for what is missing from it.

**The invariant of the keychain.** `ItemInv` is what the clean-up of createKey
rests on: until it runs, the item it is to remove has the tag that it deletes
by, or is gone. `AloneInv` adds, for exclusive users, that nothing has the name
between the check and the making of the key, and from there to the end of
createKey nothing but the new key, which nobody was told of, so that `KeyStore`
still sees the name free and the clean-up removes no key but its own.
`AckedIsAvailable` is inductive with that and not without it, as `keychain_undo`
shows. `OthersWait` says that a step is that of one process, and with it the
proof splits into the process that steps and those it leaves alone.

**The invariant of the Windows backend.** `HandlesAreOwn` and `NoHandleLeaks` are
inductive together with `CallInv`, which says which function is where, and `KeyInv`,
which says that a key that is not persisted yet is behind the one handle of the
createKey that made it. `Frame` is the argument that recurs: a step that touches
only the caller's own handles and unused ones disturbs nobody else, because two
callers never hold the same one.

**The invariant of the commands.** `NameInv`: a name that was not printed is the
name of one command at most, and certtest's is such a name until it has ended. So
nobody else's call can be about it, and what certtest knows of its key
(`KeyInv`: it is bound to what createKey returned; it is gone once deleteKey
returned) stays so. `EffectInv` follows the key of each command: it is under the
command's name or was unbound, and `StoreInv` says that a key which was unbound
does not come back.

**The refinements** map each step of the detailed module to a step of the
abstract one or to a stutter; the comments before `ImplementsKeyStore` and
`ImplementsSigner` say at which step a call takes effect. The proof for Windows
needs of the others only that they keep their keys (`OthersStay`,
`ExportKeysStay`), and has a lemma per action. `DurableRefinement` takes the steps
of the calls from `Refinement` and adds the disk: the write-backs, the power loss,
and the directory sync, of which `CallInv` says that its createKey has succeeded.

**Behind the liveness.** Liveness itself is not proved, but what it rests on is. In
`CommandsProofs` and `TpmSignerProofs`, `StepsLeft` bounds the steps that a command
or a call has before it; `Descends` says that every step of its own, and of the
backend or the TPM for it, brings that number down, and that no step of anybody
else brings it up. `NobodyWaitsInVain` says that who waits for the mutex waits for
somebody on his way to Unlock, and who waits for the device has an answer coming.
The fairness of the runs does the rest, by a count that cannot go on for ever.
For the store, `VanishesForGood` says that a deleted key that has left the
directory never comes back, and that one which has not is in the hands of a
createKey whose next step ends its stay.

Each `IInv` was checked with TLC before it was proved.

**Model-checked only.** Liveness (`DeletedKeyVanishes`, `EveryCallReturns`,
`EveryCommandExits`), since TLAPS does not reason about fairness and ENABLED here.
Every invariant, action property and refinement of the passing runs is proved.
The types of `TpmSession` are proved and in no run.

## Not modelled

* The encodings: file names of key names, TPM2 structures, ASN.1 signatures. The
  models treat them as injective. ECC points and digests are not looked into.
* `createRootCert`, `createLeafCert`, `randomSerial`, `subjectKeyID`: they fill in
  certificate templates and keep no state; their two signatures are steps of `Commands`.
* `report.go`, `osinfo_*.go`: output and system facts.
* `zsyscall_windows.go` (generated), the macOS bundle, the build files, the
  benchmark (whose parallel signatures are the workload of `TpmSigner`).

## Plan

All of it is done, in this order:

1. `KeyStore` and `LinuxStore`: the store is where keys get lost; with its proofs.
2. `Signer` and `TpmSigner`, with its proofs.
3. `TpmSession`: handles and deferred calls.
4. `DarwinKeychain`.
5. `Commands` on `KeyStore`.
6. Refinement of the abstract modules by the Linux ones, checked and proved.
7. `WindowsStore`: CNG handles and persisted keys; implements `KeyStore`.
8. The macOS and Windows signers, in the modules of their stores.
9. `BlobCodec`.
10. Proofs about `TpmSession`, `BlobCodec`, `WindowsStore`, `DarwinKeychain` and
    `Commands`, and that `WindowsStore` and `DarwinKeychain` implement `KeyStore`.
11. `DurableStore`: what the Linux store promises across power losses, and when a
    deletion is final, checked and proved.
12. Any number of macOS processes instead of one, as long as they keep off each
    other's names; every fault for the orphans, with what is left in `orphans`.
13. Kills and failing removes for `NothingLeftBehind` and `DeletedKeyGone`, with what
    is left in `abandoned`.
14. The safety half of the liveness properties: `StepsLeft` and `Descends`,
    `VanishesForGood`.
15. What the backends differ in when a create fails: `MayOrphan` and `Orphan` in
    `KeyStore`, and the commands on top of it, with kills, and with `effect` and
    `removed` for what exit status 0 promises.
16. Lost responses in `TpmSession` and `TpmSigner`, the raw device for the signer,
    Signs and Closes on a closed Windows signer.
17. `keychain_undo`: what the clean-up by name takes when a lookup has failed.

What would come next: the commands on top of `DurableStore`, should they come to
promise something of a power loss; and macOS users who share a name, should the
code come to hold it between its check and the making of the key.
