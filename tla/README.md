# Formal model of the Android Archive Engine

TLA+ specifications of the archive engine (`src/app/src/main`), the TLC runs
that check them on small instances and the proofs TLAPS checks for every
instance. Paths below are relative to `src/app/src/main` unless they start
with `src/`.

## 1. The system

The engine lists, reads, extracts, creates and edits archives on Android. A
Java application picks files through the Storage Access Framework (SAF), stages
them in its cache directory, and calls a native library through JNI. The
library picks a *provider* (zip, tar and compressed streams, 7z) for the
archive and opens a *session* on it.

    MainActivity --submit--> AaeRunner --worker thread--> AaeSession (facade)
        |  (UI thread)           |                            |  JNI handle
        |                        +--postUi--> done            v
        +--SafHelper (content URIs <-> cache files)      AaeRegistry -> ISession
                                                           |-- AaeZip (libzippp)
                                                           |-- AaeStream
                                                           +-- AaeSevenZ (LZMA SDK)

The Java facade `bin.nt.aae` (Aae, AaeSession, NativeAaeSession, ...) that the
README of the repository describes is not in the repository; the models treat
it as external, as they treat the codecs, SAF providers and the file system. Of
the vendored libraries they have what the engine's own code leans on: the list
of entries that libzippp and libzip keep for a zip session and the way they
write it, and the number reader of the LZMA SDK.

### 1.1 Components

| Component | Code | State | Operations | What makes it correct |
|---|---|---|---|---|
| Stream sessions | `jni/aae/providers/AaeStream.cpp` | `entries_`, `staged_`, `dirty_`, `fresh_`, `writeMode_`, `kind_`, `layered_`, the image and the build temporaries, `levelSet_` | open, openForWrite, list, info, readBytes, extractTo, addFile, addDirectory, remove, rename, close | the file is replaced in one step by what the session listed, or not at all; the answer of close() is true; no temporary is left; edits lose no entry |
| 7z sessions | `AaeSevenZ.cpp` | database of the archive, or `staged_` and a directory of extracted files `path_.aae7zr.N` | the same | the same; the numbers of the header read back as written |
| Zip sessions | `AaeZip.cpp` | a libzip archive opened for reading or writing: its list of entries with their changes, its comment | the same, setComment | the same; a rename that fails half way loses nothing; an emptied archive is an empty archive |
| Registry | `core/AaeRegistry.cpp` | the map of backends | registerBackend, probe, openSession, isSafeEntryName | the backend opened is the one that recognises the file; what a session has made can be opened again and shows the same; names cannot leave the extraction directory |
| JNI glue | `jni/AaeJni.cpp` | native sessions behind `jlong` handles | nativeOpen ... nativeClose | a handle is deleted exactly once, errors become exceptions |
| Operation runner | `archive/AaeRunner.java` | the executor's queue, a cancel flag and a future per operation, the UI handler's queue | submit, cancel, postUi | one operation at a time; every operation that is submitted reports |
| Screens and jobs | `MainActivity.java` | the picked inputs and outputs, the operation of each tab, busy flags | clicks, activity results, runSingleJob, runPerFileJob | sources are deleted only if they are in the published archive; a tab is busy while its operation runs |
| SAF staging | `storage/SafHelper.java` | the cache directory | stageMultipleFiles, stageTree, walkTree, copyDirToTree, copyFileToUri, deleteDocument, deduplicate | staged names are distinct and safe; what is skipped is reported |
| Libarchive provider | `AaeArchive.cpp` | | | not built (compiled out) |
| Crash screen | `AaeApp.java`, `CrashActivity.java` | | uncaught-exception handler | pure reporting |
| Vendored code | `jni/thirdparty`, ... | | | external |

### 1.2 How they interact

* One worker thread runs every archive operation (AaeRunner, line 23), so two
  sessions of the application never overlap. The library itself has no lock:
  nothing in it stops a second session on the same path.
* The UI thread and the worker share `MainActivity`'s lists of picked inputs,
  `currentOp` and `compressOp` without synchronisation; the UI can change the
  lists while a job runs.
* The worker reports to the UI only through messages posted to its queue.
* A session owns temporaries next to the archive; nobody removes them after a
  crash.
* The files given to `addFile` stay the caller's: they are measured when they
  are added and read when the session commits.

### 1.3 What is hard

Commit is a sequence of file-system steps, each of which may fail or be the
last one before the process dies; cleanup must cover every exit. Offsets into
an archive are used long after they were read. Edits are rules on path strings
(`"docs"`, `"docs/"`, `"docs/a"`), and the two rename branches must not let one
entry take another's name. Cancellation may reach an operation while it is
queued, running, or finished with its report still queued. Inputs may change
under a job. The hazards, each at its line, are in `PROJECT.json`.

## 2. Modules

| Module | What it is |
|---|---|
| `EntryTree` | the edits of the staged entries as functions on an archive (path -> item): put, remove, rename of a file, rename of a tree |
| `AtomicArchive` | abstract specification: what a writable session promises about the file |
| `StreamSession` | the sessions of `AaeStream.cpp` on one path: open, edit, commit step by step, crash; refines `AtomicArchive` |
| `AaeRunner` | the operation runner and the busy states of the two tabs |
| `CompressJob` | the compression jobs of `MainActivity`: stage, commit, publish, delete |
| `ZipEntries` | the edits of the list of entries of a zip session: directories made on the way, deletion, renames one name after the other |
| `ZipSession` | the sessions of `AaeZip.cpp` on one path: open, edit, the steps of close(), the empty archive, crash; refines `AtomicArchive` |
| `Registry` | `openSession` in its three looks at the file, and the handles of `AaeJni.cpp`: which provider opens what, and what a commit makes of a file |
| `SevenZStaging` | the edits of the staged vector of a 7z session: insertion in order, removal, renames |
| `SevenZSession` | the sessions of `AaeSevenZ.cpp` on one path, with their decoded files; refines `AtomicArchive` |
| `SzNumber` | the integers of a 7z header: `putNum` against the SDK's `ReadNumber` |
| `StreamSessionProofs`, `ZipSessionProofs`, `SevenZStagingProofs`, `SevenZSessionProofs`, `RegistryProofs`, `SzNumberProofs`, `AaeRunnerProofs`, `CompressJobProofs` | the theorems and their lemmas |
| `MCStreamSession`, `MCZipSession`, `MCRegistry`, `MCSevenZSession`, `MCAaeRunner`, `MCCompressJob`, `MCSzNumber` | the instances for TLC |

`StreamSession` and `ZipEntries` use `EntryTree` (paths, whose segments are the
constant `Segment`, and what is below them), `ZipSession` uses `ZipEntries`, `SevenZSession` uses `SevenZStaging`,
and the three sessions instantiate `AtomicArchive`: the providers promise the
same by different means. The other modules stand by themselves and rely on what
those show: `Registry` takes an edit and a commit as one step each, and shows
which provider they reach; `CompressJob` takes it that one job runs at a time
(`AaeRunner`) and that a commit that succeeds holds what was added (the
sessions). None reads another's state.

Some definitions of a module are marked "Slip". They are used by no
specification: each is the definition after it with a mistake that the code
could have had, and `PROJECT.json` ("mutants") names the property that
notices it.

### 2.1 StreamSession and the code

| Model | Code |
|---|---|
| `kind` | `kind_` and `layered_`: `"rawtar"`, `"codectar"` (x.tar.gz ...), `"single"` (x.gz ...) |
| `target` | the file at `path_`, as the entries a reader finds in it |
| `input` | the size of each file that `addFile` may name |
| `mode` | `writeMode_`, `fresh_` |
| `loaded`, `staged` | `entries_`, `staged_` (the vector as a function from paths, its order left out) |
| `dirty` | `dirty_` |
| `stale` | the file the session's offsets refer to has been replaced (`image_ == path_` for a plain tar) |
| `image` | what the build temporary holds |
| `temps` | `image_` of a codec ("i"), the slice ("q"), `buildTmpA_` ("a"), `buildTmpB_` ("b") |
| `pc` | "loading" inside open, "sliced" / "built" / "packed" / "failing" / "published" inside commit |
| `saved` | what close() returned |

`commit` is split where another actor can act: the tar image is written, it is
compressed, it is renamed over the target, the session cleans up. Every one of
these steps has its failure. Reading (`list`, `readBytes`, `extractTo`) changes
no state and appears as the function `Seen` (what `list` shows) and `DataOf`
(what a slice yields).

Abstracted: a payload is a source and a number of bytes of it; bytes of a
replaced image are `Garbage`. Compression methods, levels (`levelSet_`),
modification times, entry order and the format itself are left out: no property
here distinguishes them. Calls that fail their checks change nothing and are
stuttering steps. The kind of a path is fixed here; how name and content decide
it (line 868) is the matter of `Registry`. Temporaries that a crash
leaves behind are not followed (they have no owner, and the next session with
the same number truncates them), and the file system is taken to keep what it
was told (the code never calls fsync).

### 2.2 SevenZSession and the code

| Model | Code |
|---|---|
| `target` | the file at `path_`, as the sequence of its entries |
| `staged`, `loaded` | `staged_` and what the archive held at open; the vector itself, in its order |
| `file`, `src` of an entry | where `srcPath` points: a decoded file of the session (f0 is 1), or an input of the caller |
| `dirs`, `dir` | the directories `path_.aae7zr.N` on disk with the files in them; `loadTmpDir_` |
| `builds`, `build`, `image` | the files `path_.aae7zb.N`; `buildTmp_`; what the session's one holds |
| `gTemp7z` | the counter both take their N from, 0 again in a new process |
| `pc` | "loading" inside openForWrite, "built" / "failing" / "published" inside commit |

The C decoder extracts whole files only, so a rewrite session decodes the
archive into its directory before the first edit (`Decode`, an entry at a
time) and reads those files again at commit. `deleteRecursive` is modelled by
what it does: it removes the files up to the first missing number, and the
directory if that leaves it empty. Edits work on the vector: `LowerBounds` is
where `std::lower_bound` can end, one place in a sorted vector and any boundary
in another, and `std::sort` puts each entry at the place that the number of
those before it gives (`Arranged`). The order of path strings is that of their
segments, for names without characters that sort before '/'.

Abstracted: data are a source and a size; levels, times and the encoders are
left out, but a stored input of no bytes fails, as `commit` has it. `Atomic`
compares paths, kinds, sources and the order of the entries and not sizes,
because an input is read to its end at commit, whatever its size was when it
was added. Archives have distinct names at the start: of two entries of one
name `extractTo` decodes the first for both. Archives that cannot be decoded
(encrypted, unsafe names) are behaviours of `OpenFails`.

### 2.3 AaeRunner and the code

| Model | Code |
|---|---|
| `executor`, `Take` | the queue of `Executors.newSingleThreadExecutor()` and its worker; a task whose future was cancelled is dropped by `FutureTask.run` (external) |
| `cancelled`, `revoked` | `OpHandle.cancelled`; the effect of `Future.cancel(true)` on a task not yet taken |
| `Begin`, `End`, `Throws` | `run()` of `submit`: the flag is looked at once, an `Exception` is reported, an `Error` is not caught |
| `handler`, `Callback` | the messages of `postUi`, run one by one by the UI thread |
| `current`, `busy` | `currentOp` / `compressOp`, and the state set by `setTestBusy` / `setCompressBusy` (which also enables Cancel and, on the Compress tab, disables Compress) |
| `click` | the UI thread between the two halves of a submission (the task is queued, the handle is not stored yet) or of a cancel (the flag is set, the future is not cancelled yet) |

An operation comes from one of three places: a button of the test tab, the
copy of a picked archive (same busy state, no current operation, reports from
a `finally`), or Compress. Left out: what a job does (`CompressJob`), its
progress and how often it polls, and the re-creation of the activity while a
job runs (the new one has lists and buttons of its own).

### 2.4 CompressJob and the code

| Model | Code |
|---|---|
| `files`, `folders` | `compressFileUris`, `compressFolderUris`, which the worker reads while the UI thread may change them |
| `there` | the source documents that exist |
| `pc` | where the job is: staging ("staging", "files", "trees"), commit ("adding", "committed"), "publishing", "deleting"; per file "groups", "group", "groupDone" |
| `todo`, `next` | the copy of a list a loop works on; the index of the loop that works on the list itself (`stageAllInputs`) |
| `staged` | the staged inputs by entry name (a session keeps the last of a name) |
| `out`, `kept`, `made` | the output document, `Broken` while it is half written; the documents in archives the job has published |
| `gone` | what `deleteDocument` removed |

Names are as the code makes them: file picks are distinct (`deduplicate`), a
folder's documents are distinct below its display name (`walkTree`), and two
folders may have the same display name. A provider may refuse any deletion
(the usual ones refuse that of a tree), and one that accepts it deletes what
is below. Which documents could be copied is free when `MaySkip`, whether the
user changes the lists during a job is `UiQuiet`. Left out: the format and the
options, progress, the job's directory in the cache, and the choice of the
output (one output document stands for what the user has picked, although
`compressOutputUri` is read again when the archive is published).

### 2.5 SzNumber and the code

`PutNum` is `putNum` (the rounds of its loop are `Following`, its first byte is
`First`); `Number` and `Get` are `ReadNumber` of the LZMA SDK, which opens what
the writer has written. A header is a sequence of numbers, as `buildHeader`
emits them among fields of fixed size; those are left out.

### 2.6 ZipSession and the code

| Model | Code |
|---|---|
| `target` | the file at `path_`: its entries and its comment |
| `view` | the list of entries that libzip will commit (names and sources as changed), and the comment set |
| `base` | the same as it was read at open |
| `added` | an entry has a new source (`zip_file_add`, `zip_file_replace`); with `view # base` it is `_zip_changed` |
| `partial` | a call of the session has failed after it had staged something |
| `temps` | the sessions whose `path_.XXXXXX.part` is on disk |
| `pc` | inside close(): "built" (the temporary is complete), "written" (libzip has replaced or removed the file), "kept" (it had nothing to write) |
| `saved` | what close() returned |

An item of the list is its position and its source. `AddFile` and
`AddDirectory` make the directories above the name (`WithDirs`, `addEntry`),
`Remove` of a directory removes what is under it, and `Rename` is
`renameEntry`: the directories of the new name first, then one name after the
other in the order of the list, up to the first that libzip refuses (`Taken`).
What was done before the refusal stays staged, and the call answers that it
failed; a directory that is moved into itself is made anew.

close() follows `zip_close`: without changes nothing is written; an archive
without entries is removed; any other is written to a temporary and renamed.
`AaeZip` then looks whether the file is there and writes an empty archive, with
the comment taken before, where it is not. Every step has its failure, after
which the handle is discarded.

Abstracted: methods, levels, passwords, times and the bytes of the format; the
data of an input are its name, as the file is read when the session closes.
Archives that hold a name twice are left out, and so is reading.

### 2.7 Registry and the code

| Model | Code |
|---|---|
| `name` | the path as `backendForFreshName` and `hasLayeredTarSuffix` see it: the kind of suffix and the codec in it |
| `disk` | the file: the format around it and what is inside (its first bytes, what `isTarImage` sees, whether `parseTar` reads it to the end, the entries) |
| `made` | what the session showed that has committed the file last; `None` when somebody else put it there |
| `pc` | where nativeOpen is: "probed" (after `probe`), "found" (after the loop of `openSession`), "open" |
| `hit`, `backend`, `view`, `dirty` | the locals of `openSession`; what the session lists; `dirty_` |
| `moved` | the file was replaced since nativeOpen began |
| `answer` | the status of the exception of the last call, or `Ok` |

Opening looks at the file three times: `Open` is `probe()`, `FindByProbe` the
loop that probes again for the backend, `OpenExisting` the provider, which
reads all of it. Any other session, or anybody, may replace the file between
two of these. A fresh session takes its provider from the name. `Images` is
what a commit makes of a view: the entries of a tar in some order, compressed
when the provider is a codec. The steps of a commit, its failures half way and
what an edit does to the entries are the matter of the session modules; here a
commit replaces the file or fails.

Data are told apart by what the probes and the providers look at. Left out:
`isSafeEntryName`, which is a function of one string, and the conversion of
arguments and exceptions in `AaeJni.cpp`. The session behind a handle goes when
nativeClose returns, whatever it answered; that no caller uses the handle
again is up to the facade, which is not in the repository.

## 3. Runs

| Run | Instance | Shows |
|---|---|---|
| `StreamEdits` | one session on a plain tar, with a directory and its file, or two files in two directories; four names, with and without '/'; two edits | all edit sequences refine `AtomicArchive`, a rename gives each entry a name of its own and keeps its data, calls return |
| `StreamCommit` | two sessions on one path, of every kind of container; two names; two edits; one input that grows, shrinks and vanishes; crashes | the inductive invariant of the proofs, no leaked temporaries, slices stay good, refinement |
| `ZipEdits` | two zip sessions on one path; an archive in this writer's order, one with a directory after its file, one that stores no directories, no file; four names, with and without '/'; two comments; two edits; an input that comes and goes; crashes | refinement, what a close() that answers true has left, renames lose nothing even when they fail half way, directories stay, no leaked temporaries |
| `RegistryOpens` | one file of each kind of name (x.tar, x.tar.gz, x.gz, x.7z, x.zip), two sessions, two codecs, an entry of a plain name and one called "BZh9", data that are empty, text, zeros or a tar cut off, six files that others put there; two edits | what was committed is found and shown again in its format; the three looks of an opening agree unless the file was replaced |
| `SevenZEdits` | two 7z sessions on one path; an archive in the writer's order with two twin directories, one in another order; four paths, one edit, one input that changes; two temporaries per process; crashes | refinement, names stay distinct, sorted entries stay sorted, an edit loses no entry it was not asked to, nobody removes another's decoded files, an end leaves only what follows a gap |
| `RunnerQueue` | operations of all three places, cancels, Errors | one compression at a time, a cancelled operation never starts, a tab stays locked only for an operation that reports, was cancelled in the queue or died, the others report |
| `RunnerDone` (violation) | two test operations, no Errors | one that is cancelled in the queue never reports |
| `JobAny` | a file and two folders of the same name; picks change, inputs cannot be read, cancels, crashes | what still holds: deletions only after an archive is published, a cancel before that keeps the output |
| `JobQuiet` | the same with distinct names, readable inputs and quiet lists | nothing is deleted that is not in a published archive; the archive holds every pick |
| `JobSkippedInput` (violation) | an input cannot be read | it is skipped, and deleted with the others |
| `NumberFraming` | three numbers of sixteen at every boundary below 2^31 | the reader stays in step; numbers of up to 14 bits read back |
| `NumberSizes` (violation) | sizes of files | from 16384 on they do not read back |

Bounds. Stream: two edits on trees that already hold nested names let every
pair of edit rules meet on one entry: put over remove, rename onto a name freed
by a rename, rename of a directory into another with the same child. Two edits
also suffice for commit, whose steps do not depend on how the entries came
about. One unit of data distinguishes empty, exact and changed inputs. Two
sessions are all that can interfere pairwise. Zip: the names are two segments
deep, so that a directory can be moved into itself, onto another with the same
child (a rename that stops half way) and under one that has no entry; the
position of a directory before or after its file decides which names are
changed before a refusal, and the starts have both. Registry: two edits make
an empty archive of a full one and the reverse; the given files are what each
look can be deceived with. 7z: the archives at the start
hold what two edits would build, so that one more meets every branch of the
edit rules; two temporaries let two sessions decode side by side, or one
decode and commit, and a process meet what the last one left. Runner: three or
four operations are one running, one queued behind it and one more to overtake
or cancel. Jobs: one file and two folders of one document each are the least
with two folders that collide and a file beside them; a pick is in the lists at
most once. Numbers: TLC's integers end at 2^31, which is past every branch of
`putNum` up to three following bytes (`Most`); the longer ones repeat the same
round of the loop, and the proofs have them.

Two constants of `ZipSession` are about its surroundings. `Serial` says that
calls of close() do not overlap, as the application's one worker thread has it
(`AaeRunner`); sessions may still be open side by side. `EmptyWrites` says how
the writing of an empty archive may end. The run has `{TRUE}`: with a failure
there the answer is false and yet the entries are gone from the path, since
libzip has removed the file before (AaeZip.cpp, lines 372-379; "commit
atomically" in src/README.md, line 165). For the same reason `Atomic` takes no
file to be as good as no entries.

Fairness. Stream: a thread inside open() or close() runs on (weak fairness of
the steps of a call that has begun); callers owe nothing, and no failure is
fair. `CallsReturn` is the only property that uses it. Runner: the worker and
the UI thread run on (weak fairness); callbacks are strongly fair because the
UI thread's queue is first in, first out, so that clicks cannot hold back a
posted callback for ever. Nobody has to click. A job is taken to end.
`CHECK_DEADLOCK FALSE` stands where a behaviour may end: all operations done,
the header read.

What the violations say. `RunnerDone`: the comment of `submit` promises a
`done` that a cancel in the queue suppresses; on the Compress tab the button
then stays disabled until the screen is left. `JobSkippedInput` loses documents
of the user. `NumberSizes`: a 7z archive that the engine writes with a file of
16 KiB or more carries a wrong size in its header (but for a few sizes whose
bytes read the same in both orders).

Seen on the way, without a run:

* A pick that is added while its job runs is deleted with the others although
  it is not in the archive (MainActivity.java, line 1577); `NothingLost` with
  `UiQuiet = FALSE`.
* Two picked folders of one name stage the same entry names (MainActivity.java,
  line 1453), so that the archive lacks documents of one; `AllInputsArchived`
  with `Title` mapped to one name.
* A copy to the output that fails leaves a part of an archive there (`Broken`).
* The directory of decoded files outlives a 7z session for every archive that
  holds a directory before a file, which is how this writer orders them
  (AaeSevenZ.cpp, line 985); after a restart of the process it makes mkdir, and
  so openForWrite, fail once for each directory left. `LeavesOnlyGaps` says
  exactly what stays.
* The two cases of `Doubtful`, which the properties of `Registry` set apart. A
  single-file stream whose data start with 512 zeros is shown as a tar without
  entries when it is opened again (AaeStream.cpp, lines 54-66 and 868), where
  src/README.md, line 198, has "exactly one file". A tar whose first entry has
  a name that starts with the magic of a codec or of zip, such as "BZh9", is
  found by that probe first and cannot be opened again (AaeRegistry.cpp, lines
  115-122).

## 4. Proofs

### 4.1 StreamSessionProofs

For every set of sessions, paths, inputs and archives that satisfies
`ConstantsOK` and `NamesOK`:

* `TypeCorrect`: `Spec => []TypeOK`;
* `TempsAreRemoved`: `Spec => []NoLeakedTemps`, from the invariant
  `TypeOK /\ TempsOK`;
* `Invariance`, `SlicesStayGood`: the inductive invariant `IInv` and its
  consequence `ReadsWhatItLoaded`;
* `RenamesLoseNothing`: `Spec => RenameLosesNothing`. A rename is a bijection
  from the names before to the names after that carries each entry's data
  along (`Renaming`);
* `Implements`: `Spec => Atomic`, the refinement.

`RenamesLoseNothing` rests on `TypeOK` and on what names are (`NamesOK`: a
sequence of segments and whether it ends with '/'). Two names below a directory
that take one new name are the same name (`RebaseInjective`), and a name that
does not move is not taken by one that does, which is what the two exists()
tests of rename are for (`RenameFileRenames`, `RenameTreeRenames`).

`Invariance`, `SlicesStayGood` and `Implements` assume `PlainUse`: file names
do not end with '/', and a plain tar has one session at a time. Both are how the
application uses the library (names come from files, one worker runs one
session), and both are needed. With two sessions on a plain tar
(`SharedRawTar = TRUE`) the offsets of one are offsets into the file the other
has replaced; a file added under a name that ends with '/' passes
`isSafeEntryName` and is read back as a directory (line 288).

Why `IInv`. The refinement needs three facts at the step that replaces the
target: the image is what the session lists (`ImageOK`), which needs that no
slice is stale (`NeverStale`, from `Exclusive`) and that what is staged reads
back as it was staged (`TreesOK`: only a directory's name ends with '/', and a
directory has no data). Closing without a commit needs `DirtyOK`: a session
that is not dirty holds what it loaded. Temporaries need `TempsOK`: the slice
"q" is not among the files cleanup() knows, so it may exist only between its
creation and the compression that removes it. `TempsOK` says nothing of names
or of the archive, so `TempsAreRemoved` does without `PlainUse`.

### 4.2 ZipSessionProofs

For every set of sessions, names, inputs, comments and starts that satisfies
`PathsOK`, `PrefixesOK` (the names of the instance have their directories) and
`ConstantsOK`:

* `TypeCorrect`: `Spec => []TypeOK`. The list of entries is a function into
  items whatever is renamed, which needs that a directory moved under another
  name takes no two entries to one (`RebaseInjective`).
* `TempsAreRemoved`: `Spec => []NoLeakedTemps`.
* `EditsKeep`: `Spec => EditsLoseNothing`. A rename changes the names one after
  the other; the proof shows for the whole sequence, stopped anywhere, that the
  name an entry takes has been given up before (`EarlierMoved`, `MoveKeeps`).
* `DirectoriesKept`: `Spec => []DirectoriesStay`. `TypeOK` and the property
  itself are inductive. A list with a new name and its missing directories is
  closed, because a directory of a directory is one of the name
  (`ParentsOfParents`, `WithDirsClosed`). A rename is followed name by name
  with what has moved so far (`Positions`): a complete one leaves every moved
  name's directories among the moved or among those made first
  (`MovedParents`, `RenameClosed`); one that is refused half way is `partial`.
* `SavedWhole`: `Serial => (Spec => SavedIsWhole)`.
* `Implements`: `EmptyWrites \subseteq {TRUE}` implies `Spec => Atomic`.

The inductive invariant `ZInv` says that, of overlapping sessions, one is inside
close() (`OneBusy`), that only a session that has built has a temporary
(`TempsOK`), that a fresh session was opened on nothing and one that keeps the
file has changed nothing (`FreshOK`, `KeptOK`), and that between the rename and
the return the file is what the session showed, or is missing and the session
showed no entries (`WrittenOK`). `SavedIsWhole` needs the last, and that needs
`Serial`: two overlapping calls would each find the other's file.

### 4.3 SevenZStagingProofs and SevenZSessionProofs

For every set of sessions, paths, archives and inputs that satisfies
`ConstantsOK`:

* `TypeCorrect`, `NamesAreDistinct`, `DecodedStay`: `Spec => []TypeOK`,
  `[]NamesStayDistinct`, `[]DecodedFilesStay`;
* `OrderIsKept`, `EditsLose`, `NothingButGaps`: `Spec => EditsKeepOrder`,
  `EditsLoseNothing` and `LeavesOnlyGaps`;
* `Implements`: `Spec => Atomic`, the refinement.

The lemmas of `SevenZStagingProofs` are about the vector: that the order of
paths is a strict total one, that `Arranged` is a permutation of the places it
is given and `InOrder` sorts (`Ranks`, `Arrangement`, `InOrderSorts`), and that
each edit yields entries of the old vector or the new entry, distinct and, if
they were so before, in order. For `EditsLoseNothing` they also count the other
way: `Arranged` has every place it is given (`Laid`), so that `std::sort` and a
removal drop nothing else; an entry that is put in moves the others by one
place (`Shift`); and a rename of either kind is one-to-one on the places
(`RenameFileMoves`, `RenameTreeMoves`). The invariant `SInv` of the sessions adds that
every decoded file of a staged entry is in the session's directory
(`FilesKept`), that two live sessions have different directories, none above
`gTemp7z` (`OwnDirs`), the same of the builds (`BuildsOK`), that names are
distinct everywhere, also in the image that is being committed
(`AllDistinct`), and what each phase has: a session that is not dirty shows
what it loaded, an image is what its session shows (`PhaseOK`). Without
`OwnDirs` one session's cleanup could take another's files.

### 4.4 RegistryProofs

For every set of codecs, names, entries and files that satisfies `RegistryOK`:

* `TypeCorrect`: `Spec => []TypeOK`;
* `Reopens`: `Spec => []MadeReopens`;
* `UnsupportedOnlyRaces`: `Spec => []UnsupportedIsARace`;
* `OpensAgree`, `FormatKept`: `Spec => OpenShowsWhatIsThere` and
  `RewriteKeepsFormat`.

The invariant `RInv` says that the file which was committed is an image of the
view by a provider that goes with it (`MadeOK`), that what `probe()` said is
still so while the file was not replaced (`ProbedOK`), that the provider is the
one the name or the probe asks for (`FoundOK`) and that it goes with what the
session shows (`FitsOK`). That an image is found again is a lemma about the
probes (`ImagesAreFound`), where the two cases of `Doubtful` come from.

### 4.5 SzNumberProofs

* `TypeCorrect`: `Spec => []TypeOK`;
* `StaysInStep`: `Spec => []ReaderInStep`;
* `SmallReadBack`: `Spec => []SmallNumbersReadBack`,

for any numbers and up to eight bytes after the first. The first byte tells how
many follow whatever stands behind its zero (`FirstTells`), and one or two
bytes are read as they were written (`SmallNumber`). The invariant `NInv` knows
where each number starts in the header (`Framed`). `NumbersOK` has one fact of
arithmetic, that 256^n is at least 256 from n = 1 on: no prover at hand has
powers; TLC evaluates it up to `Most`.

### 4.6 AaeRunnerProofs

* `TypeCorrect`: `Spec => []TypeOK`;
* `CompressIsExclusive`: `Spec => []CompressExclusive`;
* `LockedTabsHaveAReason`: `Spec => []LockedForAReason`;
* `CancelledStaysOut`: `Spec => CancelledNeverStarts`,

for any operations (`OpsOK`). The inductive invariant `QInv` adds to
`CompressExclusive` that each queue holds an operation at most once and only in
the phase the queue is for: without it a callback could end the busy state of a
compression that is still to run. `RInv` adds that a future is cancelled only
after its flag is set (`RevokedWasFlagged`), so that an operation the worker
drops was cancelled. `LockedForAReason` is what safety can say of the tab that
`RunnerDone` shows locked: nothing but a cancel in the queue or an Error leaves
it so.

### 4.7 CompressJobProofs

For any documents and picks (`PicksOK`), whatever is skipped, cancelled or
changed meanwhile:

* `TypeCorrect`: `Spec => []TypeOK`;
* `DeletionsComeLast`: `Spec => []DeletesAfterPublish`, by the invariant
  `AnyInv`, which follows the two jobs step by step (`Course`);
* `CancelIsSeen`: `Spec => CancelKeepsOutput`;

and for inputs that are `Benign`:

* `SourcesAreSafe`: `Benign` implies `Spec => []NothingLost`;
* `ArchiveIsWhole`: `Benign` implies `Spec => []AllInputsArchived`.

`Benign` says that inputs are readable, that their names are distinct and that
the lists do not change during a job; each of the three is needed (section 3).
The inductive invariant `JInv` follows a pick through the job: in the list or
staged (`InArchive`) while staging, staged until the archive is published,
saved (`Saved`) when it may be deleted; `Named` ties each staged document to
its entry name, so that staging one pick does not displace another. `WholeInv`
joins the two and says that a job which still stages has published nothing.

### 4.8 Only model-checked

Liveness (`CallsReturn`, `OthersReport`), which needs fairness and is out of the
prover's reach. Every other property of a passing run is stated by a theorem,
with the assumptions named above where it has any.

## 5. Not modelled

* Chunked reading and extraction with their cancellation, in all providers: no
  state of a session depends on them, and no file but the caller's.
* The byte formats (tar headers, codecs, the 7z header but for its numbers),
  compression methods, levels, times and passwords: no property here tells them
  apart. Sizes near the 8 GiB of a tar header (AaeStream.cpp, line 347) are one
  of the reasons `BuildTarFails` stands for.
* The order of the vector of `AaeStream`; that of `AaeSevenZ`, which works the
  same way, is in `SevenZStaging`.
* The recursion of `walkTree` inside one pick, and `copyDirToTree`, which
  publishes extracted files one by one and undoes nothing when it fails.
* In the application: the choice of another output during a job, progress and
  polling, the job's directory in the cache, the re-creation of the activity,
  the self-tests of the tester tab, layout and logging.
* The libarchive provider (compiled out), the crash screen, and the Java facade,
  which is not in the repository.
* Vendored code (`jni/thirdparty`: codecs, cryptography, the LZMA SDK, the rest
  of libzip). It is nearly all of the repository's source; the engine's own code
  is about 7500 lines of it. It keeps no state of the engine, its formats are
  out of TLC's reach, and the models take from it what the engine relies on.
