# grive: a verification project

grive keeps a folder of the local disk and a Google Drive equal. It is a
command that runs once and ends; between runs nothing is left of it but a small
index, `.grive_state`. This directory models what a run does to the disk, to the
server and to the index, over any number of runs, with people changing both
sides, requests failing and the process dying in between; and, each by itself,
the parts that a run stands on: requests, uploads, one file under its system
calls, the listing, JSON, the configuration, times, and the XML tree.

Paths of the code are relative to `libgrive/src/` unless they begin with
`grive/` or `libgrive/`.

## 1. The system

### A run

```
main -> Drive::DetectChanges            Drive::Update / DryRun       Drive::SaveState
         State::Read      (index)        State::Sync                  State::Write
         State::FromLocal (disk)          Resource::Sync, a walk
         Syncer2::GetAll  (server)        Resource::SyncSelf -> Syncer2, disk
         State::FromRemote, ResolveEntry
```

Nothing runs concurrently inside the process. All that is hard comes from
outside it: the two sides change between the runs and during them, an operation
may fail in the middle of the walk while the others go on, the process may end
anywhere, and what the next run believes depends on what this one recorded.

### Components

| component | code | state it keeps | operations | here |
|---|---|---|---|---|
| Resource | `base/Resource.cc` | state, kind, checksum, size, times, id, etag, its place in the index | FromLocal, FromDeleted, FromRemote, Sync, SyncSelf, CheckRename, SetIndex, DeleteIndex, DeleteLocal | `Resource`, `Grive` |
| State | `base/State.cc` | the index, the tree of resources, entries without a parent, the ignore expression | Read, FromLocal, FromRemote, Update, ResolveEntry, Sync, Write | `Grive`, `Listing` |
| ResourceTree | `base/ResourceTree.cc` | the resources by link, checksum and size | Insert, Update, ReInsert, FindBy... | `Listing`; sets in `Grive` |
| Drive | `base/Drive.cc` | the phase of the run | DetectChanges, Update, DryRun, SaveState, UpdateChangeStamp | `Grive`, `Times` |
| Syncer2 | `drive2/Syncer2.cc`, `base/Syncer.cc` | none | Create, EditContent, Move, DeleteRemote, Download, GetAll, GetChangeStamp | `Grive`, `Transfer`, `Times` |
| Entry2, Feed2 | `drive2/` | a page of the listing | parsing, next page | the fields an entry has, in `Resource` and `Listing` |
| main, Config | `grive/src/main.cc`, `util/Config.cc` | options, the file `.grive` | the course of a run, Get, Set, Save | `Grive`, `Session` |
| AuthAgent, OAuth2 | `protocol/` | the tokens | Auth, Refresh, retry | `Session`, `Exchange`; in `Grive` a request succeeds, fails or loses its answer |
| http agents | `http/` | the flag of an error, its text, the destination | requests, callbacks | `Exchange` |
| Download, File, MemMap | `http/Download.cc`, `util/File.cc` | a file descriptor | open, write, map, close | `Transfer` |
| ConcatStream and the other streams | `util/` | parts, sizes, read positions | Append, Read, Seek | `ConcatStream` |
| JSON | `json/` | a tree of values, the stack of the builder | parse, build, write | `Json`; objects and numbers in `Times`, `Session` |
| OS, Crypt, DateTime | `util/` | none | stat, checksum, times | `Transfer`, `Times` |
| XML | `xml/` | nodes that count their references | build, look up, adopt | `Xml` (the build does not compile it) |
| Log, ProgressBar, SignalHandler, bfd | | | messages | no |

How they interact: `Drive` owns one `State`, one `Syncer2` and one root
`Resource`. `State` fills the tree; every `Resource` holds a pointer *into* the
index (`m_json`), which hangs on the pointer of its parent. The walk calls
`Syncer2` for the server and the file system directly. `Syncer2` calls back into
the resource (`AssignIDs`, `SetServerTime`). All errors are exceptions: three
kinds are caught per resource in `Resource::Sync`, every other ends the process.

### What is hard, and what makes each part correct

* **Resource.** The index is the only evidence of who changed what. Correct
  means: a file is overwritten or deleted on one side only for a change on the
  other; the evidence never hides a difference; a rename never loses a content.
* **State.** The listing has no order, entries wait for their parents; the index
  must stay a tree, or the next run cannot reach it. What an ignore expression
  hid in one run must not look like a deletion in the next.
* **ResourceTree.** A resource is found under keys that change while it is filed.
* **The walk.** One step of several fails: what was done and what was not must
  be told apart by the next run. Parents come before children, and states are
  handed down.
* **Syncer2.** Acts on etags of a listing that may be old.
* **Between runs.** A run that dies has acted and recorded nothing.
* **Options.** -f, -u, -n and --dry-run in any sequence of runs.
* **AuthAgent, CurlAgent.** Retries of requests that may have been carried out,
  with a body that is read again and a destination that is not emptied.
* **ConcatStream.** The file is sent while others may write it; the message must
  keep the shape it announced.
* **File, Crypt, Download.** A stat, a checksum and a download are many system
  calls, and writers come in between; what is recorded at the end must not vouch
  for a content that nobody looked at.
* **Config.** `.grive` is read at the start, truncated and rewritten at the end,
  without a lock. The token in it must survive.
* **JSON.** Files may be torn, answers cut off or no JSON at all; callbacks run
  below C code. Nothing half-read may be taken for a value.
* **DateTime.** Times come as text, are compared in seconds, and go through a
  number without a sign in the index.
* **XML.** Reference counts, and three orders of the same children.

`PROJECT.json` lists the hazards one by one at their lines, with the
properties that cover them and a reason where none does.

## 2. The modules

| module | content |
|---|---|
| `Resource` | The two passes that classify a path, as operators on records: disk against index (`FromLocal`, `FromDeleted`), then the listing (`FromRemote`). No state. |
| `Grive` | The state machine: the disk, the server, the index, the memory of a run; people; every phase of the run; one action per outcome of `SyncSelf`; failures; the options; the ignore expression of each run. |
| `TwoWaySync` | The abstract specification: two replicas, what they last agreed on, and when something may be copied or deleted. It knows no index and no runs. |
| `Agreement` | `Grive` with six history variables, the refinement of `TwoWaySync`, and the properties that need to know what was agreed on, listed, hidden, or disturbed. |
| `Claims` | Statements that the code's comments and options make, and that do not hold. |
| `Listing` | How entries, which know links, are put onto resources, which know names: `State::FromRemote`, `Update` and `ResolveEntry` over `ResourceTree` with its keys. |
| `Transfer` | One file, system call by system call: scan, checksum, upload, download, beside writers and renamers, and the record that is made of it. |
| `RemoteCall` | The abstract specification of a request: carried out at most once, and it was if it returns. |
| `ConcatStream` | The body of an upload: three streams read as one, a file that changes, any buffer. |
| `Exchange` | `ConcatStream` under the loop of `AuthAgent::Request`, `CurlAgent` and the server: attempts, tokens, answers, errors; the refinement of `RemoteCall`. |
| `Session` | `.grive`, the command line and the authorization, with runs that overlap, die, and a user who edits the file and revokes tokens. |
| `Json` | `Val::Visit` and `JsonWriter`, then `JsonParser`, `ValBuilder` and `ValResponse` over the grammar of yajl, token by token. |
| `Times` | `DateTime`, the numbers of `Val`, and the way of a server time through the index to the next run, in integers of a width, while others set it and visits, answers and runs are lost. |
| `Xml` | `Node` with its reference counts, `NodeSet`, `TreeBuilder`. |
| `MCGrive`, `MCAgreement`, `MCClaims`, `MCExchange`, `MCParts` | Instances for TLC. `MCParts` puts `Json`, `Session`, `Transfer`, `Xml`, `Listing` and `Times` beside each other: a behaviour is one of one of them. |
| `GriveProofs`, `RootedProofs`, `AgreementProofs`, `FlatProofs` | Theorems about runs, for every value of the constants: `Grive`, then `Agreement` for every tree, then `Agreement` for one folder of files. |
| `ExchangeProofs`, `FormatProofs`, `DiskProofs`, `ListingProofs` | Theorems about the parts: `ConcatStream` and `Exchange`; `Json` and `Xml`; `Session` and `Transfer`; `Listing` and `Times`. |

### State and code

| variable | in the program |
|---|---|
| `local`, `ctime`, `lclock` | the files, their `st_ctime`, the clock |
| `remote`, `ver` | the objects that are not in the trash, with etag and modification time |
| `index`, `ignored` | `.grive_state` on the disk: the records, the ignore expression |
| `st` | `State::m_st`, the same in memory: changed all along the walk, written at its end |
| `res` | the `Resource` of each path (`src = "none"`: there is none) |
| `feed` | entries that are listed and not yet applied (also `State::m_unresolved`) |
| `pending` | the stack of the recursion in `Resource::Sync` |
| `phase`, `opt`, `m_ign` | where the process is, what it was started with |
| `edits`, `faults` | bounds, not in the program |

`Agreement` adds to these what nobody in the program remembers. `base` is what both sides
agreed on: when a run saves, a path is `Noted` if both sides are equal there and the record
that is written says so; what is equal by chance, and of which the run knows nothing, is not
agreed on. `TwoWaySync` may leave an equal path out of it only if something failed since the
run began (`disturbed`), and it takes what a cut download leaves (`Damaged`) for no news of
anybody: it may be written over without a reason, but not copied over a file.

One phase of `main` is one or more actions: `Start` (Read and FromLocal),
`GetAll`, `ListEntry` (FromRemote of one entry, with the `SetState` of the subtree),
`ResolveEntry`, then visits, then `SaveState`. A visit is one of
`MarkSync`, `Create`, `EditContent`, `DeleteRemote`, `MakeDir`, `Download`,
`Skip`, `DeleteLocal`, `ForgetDeleted`, `MoveRemote`, `MoveLocal`, `DryVisit`, or
it fails: `CallFails` (the exceptions `Resource::Sync` catches), `LostReply`
and `LostMove`
(carried out, but no answer), `Abort` (an assertion, or NULL dereferenced;
the build keeps assertions). `Die` and `TornSave` end the process without a
complete save. Each visit is the whole of `SyncSelf`: the operation, the
record, the server time, and which children follow.

In `ConcatStream`, `parts`, `sizes`, `cur` and `pos` are `m_streams`, `m_sizes`,
`m_cur` and `m_pos`; `offset` holds each stream's own position, `buf` what the
`Read` under way has written, `sent` what the attempt has handed to libcurl. A
turn of the loop of `Read` is one action, so that the file may change between two.
In `Exchange`, `step` is the place in `AuthAgent::Request`; `token` is `m_access`,
`bearer` the token in the header of the attempt; `error`, `received` and `fed`
stand for `CurlAgent::Impl`: the flag, the size of the text kept, and the answers
of which something was written to the destination. `issued`, `current` and `carried` belong to
the server: the valid token, whether the object still has the revision that was
listed, and how often it has done what the call asks.

`Grive` and `Exchange` meet in `RemoteCall`: `Grive` lets each call succeed, fail
(`CallFails`) or lose its answer (`LostReply`, `LostMove`), and `Exchange` is shown to do no
other. A create or a rename, which name no revision, may be carried out twice; for
a rename that is harmless, for a create it makes two objects, which `Grive` does
not represent.

In `Listing`, `tree` is the tree of `Resource` objects by their addresses, `filed` the
keys that `ResourceTree::m_set` files each under, `unresolved`, `cursor` and `count` are
`State::m_unresolved` and the two variables of `TryResolveEntry`, whose loop is one action
a turn. `Grive` takes a path and an entry for the same thing; `Listing` says how they get
together, so that `Placed` is what `ListEntry` and `ResolveEntry` of `Grive` rest on.
In `Transfer`, `body`, `ctime` and `name` are the inodes and the directory entry, `rec` the
record of the file in the index, `fd`, `total` and `sum` what `MD5::Get` or `Download`
hold, `at` where the process is. `Scan` is `os::Stat` and the decision of
`Resource::FromLocal`; `Map` one turn of the loop of `MD5::Get`; `OpenForWrite`,
`ReceiveBlock`, `SetFileTime` and `Stat` a download; `InSync` and `Upload` the two ends
that record the time of the scan. What is one step in `Grive` is here all the steps it has.
In `Session`, `m_file` and `m_cmd` are those of `Config`, `refresh` is
`OAuth2::m_refresh`, `config` the file, which is `Torn` between `Truncate` and `Rewrite`.
In `Json`, `todo` is the recursion of `Val::Visit`, `grammar` the state of the parser of
yajl, `ctx` is `ValBuilder::m_ctx`. In `Times`, `m_json` is the record of one object in memory and
`saved` the one of the index, as `Val` objects with typed values; `news` is what the listing decided,
and `seen`, `was` and `kept` remember of which text each of the three times was made. In `Xml`, `impl` is the heap,
`handle` the variables of type `Node`, `releasing` the nested calls of `Release`.

### What is abstracted

* A content is a model value, and its checksum. `Size` may be equal for two
  contents, so that the size check of `FromLocal` is not decisive.
* Two changes of the disk are at least one second apart (times are compared in
  seconds), and an object has at most one name.
* The scan, and the listing, are each one step. Changes while a run is under
  way (`Concurrent`) fall between any two other steps. On the disk they rewrite
  files that exist; on the server they rewrite and trash.
* Objects do not appear at a path between the listing and the end of the run:
  grive would make a second object of the same name. For the same reason the answer to a
  move is lost only when no other new file is still to be visited (`LostMove`): the id that
  grive keeps leads to the object wherever it is, and a second file of the same content would
  move it again, from the path where it then is.
* What `CheckRename` does for a rename (`Resource.cc:526-541`), the move, the new record and
  the loss of the old one, is one step, but for a NULL record in the middle. A process that dies
  there loses all it knew, which is `Die` before or after.
* Only files get a second parent. A new object at the path of an ignored one
  takes its place.
* The bytes of `ConcatStream` are those of the message; a JSON body of a rename or
  of a new folder is one `StringStream`, and is not modelled byte by byte.
* An answer comes in blocks, of which only the code of the answer they belong to is
  told apart; it may have none, as of an empty file. Codes stand for their class:
  403 for every error that is not retried, 412 for a revision that is not current. Codes
  of 3xx are left out: the calls used here are answered with none, and nothing asks curl to
  follow one.
* An ignore expression is the set of paths it hides (`Hides`), a folder with all that is
  in it; --dir is such an expression. `Grive` leaves google documents, names with a slash
  and links out, for `Listing` has them; the change feed, which no code calls, is left out.
* The change stamp is left out: `Drive::ReadChanges` alone would read it, and nothing calls that.
  What remains of `UpdateChangeStamp` is a request after the walk, at which the run may end
  before it saves (`Die`).
* In `Transfer` the server changes between the runs only; what a download brings that is not
  what was listed is in `Grive` (`busy`).
* `Transfer` follows one path. A block stands for 4 MB where a file is hashed and for a
  buffer where it is received; a checksum is the content.
* Tokens of `Json` are the strings, atoms and brackets of a text; commas, colons, white
  space and escapes are those of yajl, which is taken to be right.
* `Times` counts in powers of a small `Base`, and its integers have a few bits, so that
  TLC meets times before 1970, the numbers they become, and fractions.
* `Xml` is of code that `libgrive/CMakeLists.txt:64` does not compile: it says what whoever used
  these classes could rely on, and nothing of a run. The iterators of a `NodeSet` are dereferenced
  where they are made; they count nothing, and one that outlives a change is not modelled.

### Faulty variants

A definition whose comment begins with "Faulty:" is a variant of the definition
after it with a plausible mistake: a dropped guard, a missing reset, a
comparison the wrong way round. No specification uses it. Put in the place of
the definition it must make TLC find the property violated that `PROJECT.json`
pairs it with. That is how each property is known to depend on the code it is
about.

## 3. What TLC checks

| run | instance | properties |
|---|---|---|
| `flat` | two files, each with contents of its own, edited and deleted on both sides; two failures: a request, its answer, the process, the save | `TwoWaySpec` |
| `tree` | a folder with two files, edited on both sides; a failure | `NoAbort`, `IndexRooted`, `OneRunSettles`, `IndexHonest` |
| `rename_disk` | three files of two contents, renamed on the disk; two failures | `RenamesKeepFiles` |
| `busy` | two files, rewritten on both sides during the run; two failures | `NoGarbage`, `OneRunSettles`, `NoLostUpdate` |
| `ignore` | a folder and a file in it, each hidden by some runs, with and without -n; one failure | `HiddenSpared`, `HiddenUntouched` |
| `mixed` | a folder or file and a file in it or not, every kind of change, option and failure, from a synced or an empty index | `TypeOK`, `DryRunIsDry`, `UploadOnly`, `ForceOnlyPulls` |
| `fair` | two files renamed, edited, deleted on both sides; two failures: a request, its answer (of a move too), the process, the save | `RunEnds`, `Converges` |
| `exchange` | a call after another, HTTP/1.1; two errors, lost connections or expired tokens; a file of up to three bytes written twice; a buffer of two | `Framed`, `WholeFile`, `NoErrorFed`, `TokenRenewed`, `CallSpec`, `CallEnds` |
| `parts` | the modules of `MCParts`, one at a time | see below |

What the runs of `Grive` and `Exchange` show:

* `TwoWaySpec`: the program is a two-way synchroniser. Whatever it does to a file
  on one side answers a change on the other side since the two last agreed, and an
  edited file is never deleted. This is a refinement: `TwoWaySync` with the disk
  and the server as the two replicas.
* `IndexHonest`: at rest, a file which the next run will take for unchanged, on the disk by
  its ctime or in the listing by its time, *is* what both sides agreed on.
* `OneRunSettles`: a run that nobody disturbs leaves both sides equal, whatever
  the earlier ones left behind, except what it hides, and except a path where an
  earlier run fetched something else than it had listed: that one may keep a
  difference (see the departures).
* `IndexRooted`: every record hangs on the record of a folder.
* `NoAbort`: in one folder, with files where files were and folders where folders were,
  no assertion fails. (`mixed` drops the second condition, and does reach `aborted`; so do
  folders in folders, and read-only ones, as the departures say. `NoAbort` says
  nothing of these.)
* `RenamesKeepFiles`: the rename detection, which pairs deleted and new
  resources by checksum, never loses a content.
* `NoLostUpdate`: If-Match protects what was changed after the listing, unless the folder it is
  in is trashed.
* `NoGarbage`: the empty file that a failed download leaves never goes to the
  server, as long as the object that it was to be is still there to be fetched.
* `HiddenSpared`: what goes from the disk while it is hidden is not trashed when a later
  run looks there again, as long as its folder stays; if that goes too, it goes with the folder, or is
  moved out of it first. That is what `m_ign_changed` is for: the server times of
  records that were missed are dropped when the expression changes. What is watched is the
  history variable `unseen`: what went while it was hidden, until a run finds it or
  brings it back, or sees it missing with its folder, or skips it for -n.
* `HiddenUntouched`: a run changes nothing of what it hides, on neither side.
* `DryRunIsDry`, `UploadOnly`, `ForceOnlyPulls`: what options promise.
* `Framed`: the head and the tail of an upload stand where its announced size says,
  in every attempt, though the file is cut, extended or rewritten while it is sent.
* `WholeFile`: when nobody writes the file, every attempt sends all of it, from the
  beginning, wherever the attempt before was cut off.
* `NoErrorFed`: over HTTP/1.1, and for errors shorter than `ErrorLimit`, what a call
  receives is the answer and nothing else, and nothing at all if the answer is empty.
* `TokenRenewed`: a refused token is not sent again in the same call.
* `CallSpec`: a call is carried out at most once if it names a revision, and if it
  returns it was carried out: the refinement of `RemoteCall`.
* `CallEnds`: a call ends, whatever was retried.
* `RunEnds`, `Converges`: every run ends, and when people and failures stop, both
  sides become equal for good.

What `parts` shows:

| module | properties |
|---|---|
| `Json` | `NoThrow`: the stack of the builder follows the grammar, so that no callback throws through yajl. `OnlyWholeTexts`: nothing is taken from a file this program died writing. `ReadBack`: what was written is what is read, but for a null and for a string that is not UTF-8. `PartialAnswersAgree`: what is read of a cut answer stays true of the whole. |
| `Session` | `TokenKept`: a saved token is in every configuration that can be read. `SettingsKept`: without a race, the file is never left unreadable, a setting stays as the user wrote it and no option of a command line gets into it. |
| `Transfer` | `WriteNoticed`: a record vouches for a file only if its checksum is that of the content, apart from writes in the recorded second and between the opening and the Stat of a download. |
| `Listing` | `Placed`: an accepted object has the resource at its name in its folder, in whatever order it was listed, and others have none. `OneEach`: no two resources for one object, or one path. `KeysCurrent`: while the listing is applied, resources are filed under the keys they have. |
| `Times` | `NewsIsLater`: a listing is newer exactly if its second is later than that of the time the last record was made of: what others change after the listing, or while the file is uploaded, is found by the next run, and nothing is found twice. `Ordered`: the comparisons of `DateTime` are those of instants. |
| `Xml` | `NoDangling`, `Reclaimed`: reference counts free what is unreachable and nothing else. `WellNested`: the stack of the builder is what the assertions say. `FoundInOrder`: look-ups by name find what the children are, in their order. |

**Bounds.** `MaxEdits` (3 changes by people; 2 in `mixed` and `fair`) and `MaxFaults`
(2 failures; 1 in `mixed`, `tree` and `ignore`) bound an instance; the number of runs is not bounded. Three changes
are enough for one on each side with one before or after, and for an edit, its
reversal and another; since every property relates a path to what it was agreed
to be, or two paths by an equal checksum or by containment, two or three paths
make every relation there is: beside, below, renamed to, swapped through a third.
Two contents of one size and one of another exercise both checks of `FromLocal`.

In `busy` three rewritings on the server are needed, and enough, for an object to change
after it was listed and to change back later.

In `parts`, texts are scalars, objects and arrays of them, and objects of these, written, and torn after
any token; answers are any seven tokens. Two runs overlap, with two tokens, two interventions
of the user and a death. A file has up to two blocks, two inodes and three seconds
(0, 1 and 2), which has every relation of a write to the scan, to the record and to the
next one. The heap of `Xml` has four nodes, of at most three references, and three calls
beside what the builder does. Listings are three or four entries, folders three
deep in any order, beside a cycle, a file with folders in it, a second entry of one object and
two objects of one name; scans are empty, or have a file or folder in their way. Times have
no or three digits of base two after the point, and are of the seconds -1, 0 and 5; long longs have
six bits, so that a second before 1970 becomes a number that none of the others is.

In `exchange` the buffer is smaller than the file and larger than
what is left of a part, so that reads end inside parts and across them and zeros may be
more than a read asks for; two writes cut a file and extend it again; two troubles
are an expired token and an error after the request was carried out, or two
errors in a row. `MaxBody` is as large as `ErrorLimit`: a longer text of an error is
fed to the destination, as the code says.

**Fairness.** In `Grive`, `FairSpec` has weak fairness of `Run`: a started process goes on,
and cron starts the next. Nothing is assumed of people, who may stop, or of
failures: a failure that the bound excludes no longer occurs, which is the
condition of `Converges`. In `Exchange`, `FairSpec` has weak fairness of `Work`: the process goes
on and the server answers. The second is an assumption about the server, for the
code sets no timeout; a server that never answers stops the run. That
errors end is the bound `MaxTrouble`: the loop has no limit of its own.

**Deadlock** is checked in every run but `parts`: an idle program can always start again.
The parts really stop: a text was read to its end, a heap is full, the last second passed.

### Where the code departs from what it says

Each of these runs checks one statement of the repository, which TLC refutes:

| run | statement | what happens |
|---|---|---|
| `claim_cut_download` | "changes in local is newer than remote" (`Resource.hh:62`) | with -f, a folder that is gone is fetched again; the download of a file in it fails and leaves it truncated; its record, which the scan did not reach, says that the server is not newer, and the next run takes the truncated file for a newer one, to be uploaded over the server's |
| `claim_upload_only` | "only upload local changes" (`grive/src/main.cc:123`) | a skipped change is recorded as seen; the next run uploads the old file over it |
| `claim_error_body` | "Do not feed error responses to destination stream" (`http/CurlAgent.cc:152`) | over HTTP/2 the status line has its code two characters earlier, and the text of a 401, 403, 500 or 503 goes to the file or to the parser |

Other departures, met with TLC or while modelling, and not kept as runs:

* The upload of a run that died before it saved is taken for somebody else's change, and a
  file edited since is overwritten.
* The change stamp is asked for after the walk (`Drive.cc:132`), so it counts changes that others
  made since the listing; whose they are nobody looks ("FIXME", `Drive.cc:130`), and ids beyond an int
  wrap (`Syncer2.cc:240`). Nothing comes of it, for no run asks for the changes after the
  stamp: the next listing is of everything.
* An empty file is moved out of a folder d, which is in c, and d is then removed. If
  the walk comes to c before the file, it trashes d, then still takes what was in d for the
  origin of a rename (`Resource.cc:528`; `DeleteRemote` leaves it `local_deleted`, and d itself
  has the size 0 that is looked for), moves the object inside the trash, and `DeleteIndex`
  dereferences the record of d, which is NULL (`Resource.cc:697`). "If myself is deleted, no
  need to do the childrens", `Resource.cc:480` says. A file that is not empty needs another
  deleted one of its size.
* -a keeps the old token: `Config::Set` uses `Val::Add`, which does nothing where the key is
  (`Config.cc:83`), though `main.cc:186` says "save to config". The run then goes on with the
  old one.
* Runs that overlap save what each read: a setting that the user edits meanwhile is
  undone (`Config.cc:74`; `mixed` in `Session`).
* A file name that is not UTF-8 is written to the index, which then cannot be
  parsed: the next run starts without one (`JsonWriter.cc:61`). A null is read as an
  empty object (`ValBuilder.cc:55`). The generator gives up below 128 levels without
  anybody looking (`JsonWriter.cc:89`).
* A write within the recorded second, or between the opening and the Stat of a download, is
  not noticed by any later run (`Resource.cc:286`, `Resource.cc:707`).
* An object that is rewritten between listing and download, and later rewritten back, leaves
  the disk with the content in between: its checksum in the index is that of the
  listing (`base/Syncer.cc:43`).
* Two objects of one name in one folder share a resource, and take turns in it (`Twins`).
* `GetMD5` (`Resource.cc:770`), and `AssignIDs` after an upload, change the keys of a resource
  without `ReInsert`, against the comment of `ResourceTree.cc:114`.
* A fraction of a second of other than three digits is misread (`DateTime.cc:62`); changes
  within one second are not news (the FIXME of `Resource.cc:110`).
* `os::Sleep` never looks at what `nanosleep` returned: a signal shortens the wait before a
  retry (`util/OS.cc:99`).
* A folder is trashed with the files that somebody changed in it after the listing: If-Match
  compares the etag of the folder alone (`Syncer2.cc:57`).
* What was hidden, and then seen missing and skipped by a run with -n, is trashed by the next one:
  the record is older than the expression no longer. `HiddenSpared` speaks of what happens until then:
  a run with -n that looks there ends the watch (`unseen`).
* An upload whose answer was lost leaves a record that is older than the object. If the object is
  trashed, and the file restored from a copy meanwhile, the next run takes the file for
  what was trashed, and moves it to `.trash`.
* The Content-Length of the part with the file is taken before `Append` fixes the size
  (`Syncer2.cc:178`, `ConcatStream.cc:93`).
* `Node::AddAttribute` and `AddNode` lose a reference when `Add` throws (`xml/Node.cc:88`);
  the results of `NodeSet::Find` hang on a node of the set and go with it; the parser of
  expat is never freed.
* A file that gets a second parent on the server "has multiple parents, ignored" (`State.cc:162`): it is
  not listed for the run any more, stays `remote_deleted`, and is moved to `.trash` on the disk.
* `Create` refuses a folder that was made in a read-only one by returning false (`Syncer2.cc:84`); what
  is in it is visited all the same, and `assert( res->Parent()->GetState() == Resource::sync )`
  (`Syncer2.cc:80`) fails: no run saves anything from then on. TLC finds it with a folder and a file in
  it, made in a folder of `ReadOnly`.
* `assert( parent->IsFolder() )` (`State.cc:228`) fails where the disk has a file and
  the server a folder: `FromRemoteFile` gives the file the folder's id.
* When the file of an upload was cut, `ConcatStream::Read` may return more than it
  was asked for (`util/ConcatStream.cc:42`); `Overrun` has the outcomes, a failed call
  or the end of the process.
* A request that was carried out and answered 500 is sent again with the old
  revision, and refused with 412: the walk takes it for a failure, and the next run
  for somebody else's change.
* A file edited on both sides between two runs is `remote_changed`, whichever
  edit was later: `FromRemoteFile` compares two times of the server
  (`Resource.cc:214`).
* A rename on the server keeps the modification time. An object renamed onto the
  name of another is not newer than its record, so the unchanged local file is
  uploaded over it (`Resource.cc:222`); with three names a content can be lost.
  This is why `rename_disk` has no counterpart for the server, and why
  `TwoWaySpec` is not checked in `fair`.
* An operation on a folder that fails leaves the records below it. A file made
  again there with the content of its record counts as unchanged, so it is
  `remote_deleted` and deleted (`Resource.cc:300`). This is why `TwoWaySpec` is
  not checked in `tree`.
* A file added on the server to a folder deleted on the disk is trashed with it
  (`Resource.cc:165`).
* After a run that died between deleting the old name of a renamed file and
  saving, undoing the rename makes the next run trash the file; so it is if the answer to the
  trashing is lost. `RenamesKeepFiles` is therefore checked without these two failures.
* A rename is missed, or tried after its origin went to `.trash`, depending on
  the order of the walk (`Resource.cc:518`).
* A download records the checksum of the listing, not of what came
  (`base/Syncer.cc:43`).
* When a failed download is followed by trashing the object, the empty file is
  uploaded as new (`http/Download.cc:50`).
* `assert( !IsFolder() )` (`Resource.cc:611`) fails for a newer file where the
  disk has a folder.
* What cannot be read is recorded as in sync (`Resource.cc:275`); when it goes
  from the disk the object is trashed.

## 4. What is proved

Every theorem is checked by TLAPS for every value of the constants that satisfies
the named assumptions of its module; TLC evaluates these assumptions on every run.
They say what the code's types say (distinct values for "nothing", finite names,
buffers of at least one byte) and what a caller guarantees, and nothing of the
properties.

The four modules about runs assume `TreeAssumption`, `ThingAssumption` and
`GriveAssumption`: the paths form a forest below the root (only its parent
function and its relation "below", which is transitive and not reflexive, are used,
and neither is required to be finite; `ChangesAreSpared` alone uses `PathAssumption`, that
a path has finitely many components), the values that stand for nothing, a folder, an unreadable thing and an
absent checksum are distinct from contents, and -u implies -n as in
`util/Config.cc`.

| theorem | states | argument |
|---|---|---|
| `TypeCorrect` | `Spec => []TypeOK` | `TypeOK` is inductive: a lemma for each thing that writes a record, then one case per action |
| `DryRunChangesNothing` | `Spec => DryRunIsDry` | no visit but `DryVisit` is enabled without a Syncer; failures need a call, which needs one too |
| `UploadOnlyBringsNothing` | `Spec => UploadOnly` | `opt` is one of `Options`, so -u has -n and nothing is fetched, nor truncated; a rename only moves a content |
| `ForcePullsOnly` | `Spec => ForceOnlyPulls` | the invariant `ForceInv` below |
| `RecordsHang` (`RootedProofs`) | `Spec => []IndexRooted` | the invariant `RootInv` below |
| `ChangesAreSpared` (`AgreementProofs`) | `HSpec => NoLostUpdate` | the invariant `SeenInv` below |
| `HiddenStays` (`AgreementProofs`) | `HSpec => HiddenUntouched` | `Visible`, a part of `SeenInv`: no resource is made of a hidden path in either pass; and what a visit, a rename or a failed call touches has one, or is below one |
| `HiddenIsSpared` (`AgreementProofs`) | `HSpec => HiddenSpared` | the invariant `HideInv` below |
| `OneFolderNeverAborts` (`FlatProofs`) | `Flat`: `HSpec => []NoAbort` | the invariant `FlatInv` below |
| `OneFolderIsHonest` (`FlatProofs`) | `Flat`: `HSpec => []IndexHonest` | the same |
| `OneFolderSettles` (`FlatProofs`) | `Flat`, `Sure`: `HSpec => []OneRunSettles` | the same |
| `OneFolderIsSynced` (`FlatProofs`) | `Flat`: `HSpec => TwoWaySpec` | the same, and one lemma for each way a step changes a replica |
| `OneFolderSendsNoGarbage` (`FlatProofs`) | `Repaired`: `HSpec => []NoGarbage` | the invariant `WholeInv` below |

`ForceOnlyPulls` does not follow from the types: that nothing of the listing is
written under -f depends on which *states* the resources have, and these on times
that were dropped before the listing came. `ForceInv` says: every object has a
time greater than 0 (`Timed`); and under -f, no resource is `local_changed` or
`local_deleted`, none has a server time when the listing is asked for, and none
whose entry is still to be applied has one later (`NoPush`). Then each entry is
newer than its resource, `FromRemote` makes it `remote_new`, `remote_changed` or
`sync` or hands down the parent's state, which is not one of the two, and all a
walk can do on the server is to create what is not listed. TLC checked `ForceInv` in the
instance of `mixed` before it was proved.

`IndexRooted` is not inductive by far: most visits record a path without a look at the
record of the folder above it, or after a look at `m_json` of that folder, which only
says that there was one. `RootInv` says why it is there, for every order of the walk
and whatever was refused or failed before:

* what a resource may be in each state (`ByItself`): what is new or deleted *here* was
  found here, what the listing has is neither new nor deleted *there*, and only what is
  deleted on one side loses its `m_json` during the walk;
* what is above a resource is a folder, is on the disk if it is, and has its `m_json`
  if it has (`Chained`), and what was found as a file is no folder on the disk
  meanwhile (`Fits`, `DiskTree`);
* a resource with an `m_json`, to the root, has its record (`Recorded`);
* of the paths still to visit none is below another (`Queued`), nothing above one is
  deleted on one side only, and its folder has its record, or was left alone, or was the
  origin of a rename (`Walking`).

So a visit to one path cannot take away a record on which another still to come hangs:
what it deletes is at or below it, and a renamed origin is above nothing that waits.
TLC checked `RootInv` in the instances of `tree` and of `mixed` (with a third change, and
files rewritten during the run), and with two folders inside each other, before it was
proved.

`NoLostUpdate` needs to know why a visit that acts on an entry acts on the entry that *is* the
object's, or is refused. `SeenInv` says: the server is a tree, and its etags grow
(`ServerInv`); before the listing no resource knows anything of the server (`Unlisted`); every
entry gets to its resource unless it is ignored (`AllApplied`), with its etag and checksum
(`Knows`); and what has the etag it had when it was listed is as it was, and what is still to be
visited and was not listed has not appeared (`UpToDate`). So what differs from the listing
has another etag, and the server refuses; what is not guarded (`Move`) keeps its
content; and what a POST makes is where there is nothing. TLC checked `SeenInv` in
the instance of `busy`, and with folders, before it was proved.

`HiddenSpared` relates the records of several runs. `HideInv` says of each path that is watched
(`unseen`): on the disk its record has no time of the server, or the expression of the last
save hid it (`Aged`), so that the scan of a run that does not hide it drops the time; in a
run that looks there and misses it the resource has no time until its entry comes, and
is `local_deleted` only with a folder that is gone (`TakenForNew`), for every entry has a
time and so is newer (`Untouched`); and unless the walk brings it back, the record that is
saved has no time either (`LeavesNoTime`). What is deleted here was not found here
(`HereOrNot`, `FoundIn`), and by `Walking` of `RootInv` nothing below a folder that is deleted
waits for a visit of its own, so the visit that trashes is one of a folder above, or of a
folder whose file was moved. TLC checked `HideInv` in the instance of `ignore` before it was proved.

### One folder

The promise of `TwoWaySync` does not hold of grive in general: the departures above are its
counterexamples. `FlatProofs.tla` proves that they are all there is to it: where they cannot
occur it holds, and with it that nothing aborts, that the index is honest, and that a run
settles everything. `Flat` excludes, one by one:

| conjunct of `Flat` | why |
|---|---|
| all paths are files in the root | a folder hands its state down, to what is new in it and to records that an operation that failed left below it |
| what may be at one path is at no other | a content that moves between paths keeps its old time on the server, and makes renames, which are recorded in two steps |
| no option but --dry-run | -f drops times that are needed to notice, -n and -u keep records of what was skipped |
| no ignore expression | what is hidden and changes is not news when it is seen again |
| nobody changes anything during a run | the checksum of the listing is recorded of what was fetched |
| no second parent | such an object is gone for grive |

Everything else is free: how many files and contents, who changes what between the runs
(files appear, disappear, change, change back), the order of the walk, which visits fail or lose
their answers, when the process dies, whether the index is cut short, and how often. With
`Flat`, all constants of `flat` and many more are instances. `OneRunSettles` also needs `Sure`: a file that may
not be uploaded stays different, and a download that was cut short leaves a file that
differs until it is fetched again.

`FlatInv` is the conjunction of what holds in each phase:

* `RestInv`, always: a record by itself tells the truth of the disk, for an equal ctime vouches
  for the checksum (`Sound`); a record is tied to what was agreed on: its checksum is `base`, and the
  time of the server is later than the recorded one exactly if the object is no longer that (`Tied`).
* `MemoryInv`: the same of the records in memory, with what *will* be agreed on if the run saves now
  (`Will`). This is what makes any visit the last before a save, and any save a death.
* `ScanInv`, `JudgeInv`: after the scan a resource is what `FromLocal` and `FromDeleted`
  make of the file and its record; after its entry is applied its state tells the truth of both sides
  and of the record (`Facts`: one line for each state).
* `WalkInv`: what is still to be visited is judged as before, for no visit disturbs another path;
  what was visited is noted, or refused, or something went wrong since the run began
  (`Done`); and what was deleted here is still to be visited while anything that is new here is, since
  it may be the origin of a rename. The only thing that can be at two paths, and so can be
  renamed, is the remainder of a cut download, and to move that breaks no promise. If the answer to
  such a move is lost, its origin waits for a visit that finds nothing to trash (`Lost`).

The refinement then follows from the state of the path visited: `Facts` says which side has news,
and that is what `TwoWaySync` asks of `Propagate`; a save is `Agree` by the definition of `Noted` and by
`Done`; a torn save is `Forget`. TLC checked `FlatInv` in three instances, of 9.7 million states the
largest, before it was proved. It also showed that after a lost answer both sides may be equal without the
run knowing it, which is why `base` is what was `Noted`.

### What a cut download leaves

`NoGarbage` does not need a quiet folder. `Repaired` lets people put files on the disk, remove them, and
write new contents to objects while a run is under way; what it keeps is the first four conjuncts of `Flat`
(`OneFolder`), and that nobody trashes an object or gives it a second parent. Of these conditions TLC shows
that `NoGarbage` is false when any of the following is allowed, in one folder with one file:

| what is excluded | how the empty file is sent |
|---|---|
| trashing an object | the download is cut, the object is trashed, and the next run finds a new file |
| a second parent | the same: what has several parents is skipped |
| -f | it drops the recorded time, the object is fetched for that; the run dies with the file cut, and the index still has the time: the next run without -f takes the file for an edit |
| -n | it records the time of an object that it skipped; the download of the next run is cut, and the object is no longer later than its record |
| an ignore expression | it drops the recorded time of what was missed, and then as under -f |

`WholeInv` says why it is true of the rest. A record, saved or in memory, is of the object unless the object is later
(`Against`); where the file was cut, there is an object, later than either record, and the
ctime of the file is later than either too (`Truthful`), so that no scan takes the checksum from the
record. Then `FromRemote` finds the object newer and different: `remote_changed`, the one state in which
nothing of the file is read (`Classed`). A visit that cuts a file does so to an object that was judged later
than the record, and what was listed is there still or a later one (`Since`). A rename is never
seen, for what is compared is a content of the path and no content is of two (`NothingMoved`). TLC
checked `WholeInv` in instances of one and of two files, of 1.7 million states, before it was proved.

### The parts

`ExchangeProofs.tla` does the same for a request, from
`StreamAssumption` and `ExchangeAssumption` (a head and a tail that are not empty,
buffers of at least one byte).

| theorem | states | argument |
|---|---|---|
| `UploadsAreFramed` | `Spec => []Framed` | the invariant `StreamInv`: the position is the number of bytes sent and lies in the current part, and the first and the last part have been read as far as it says; one lemma for a turn of `Read` in each part |
| `RefusedTokensAreRenewed` | `Spec => TokenRenewed` | `TokenInv`: a refused token is older than the valid one, and after the renewal than the one that is sent next |
| `CallsAreAtomic` | `Spec => CallSpec` | `CallInv`: what was carried out once and names a revision no longer meets that revision; an answer without error comes of a request that was carried out |
| `NoErrorIsFed` | `Spec => []NoErrorFed` | `FeedInv`: while an answer comes, the flag says whether it is an error; the text of an error stays below the limit; before an answer nothing was fed, and then what was received of one that is no error |
| `UploadsAreWhole` | `Spec => []WholeFile` | `WholeInv`: as long as nobody wrote, the announced size is that of the file, the file is read where the position says (`InOrder`), and what stands where the file belongs is the file (`FileBytes`) |

`Framed` is not inductive: without the position nothing says where the next byte goes,
and without the offsets nothing says which byte it is. Of the file no such thing is
known or needed: it may hold anything, as long as no more of it is read than its place has.

The other parts below a run have proofs of their own.

| theorem | states | argument |
|---|---|---|
| `BuilderNeverThrows` (`FormatProofs`) | `JsonSpec => []NoThrow` | `JsonInv`: the stack of `ValBuilder` has a level for each container that the parser has open, of the kind and with the key that the parser's state calls for |
| `AnswersOnlyGrow` (`FormatProofs`) | `JsonSpec => PartialAnswersAgree` | from `JsonInv`: a token reaches only the top of the stack, and an object keeps the first value of a key |
| `HalfATextIsNoValue` (`FormatProofs`) | `JsonSpec => []OnlyWholeTexts` | `TextInv` below |
| `WhatWasWrittenIsRead` (`FormatProofs`) | `JsonSpec => []ReadBack` | `TextInv` below |
| `NothingDangles` (`FormatProofs`) | `XmlSpec => []NoDangling` | `XmlSound` below |
| `NothingLeft` (`FormatProofs`) | `XmlSpec => []Reclaimed` | `XmlSound` below |
| `StackNests` (`FormatProofs`) | `XmlSpec => []WellNested` | `XmlSound`, `Paired` and `Nested` below |
| `TokenIsKept` (`DiskProofs`) | `SessionSpec => []TokenKept` | `Holders`: a run that may still write the file has a token in what it read of it, or got with -a; none comes from the command line |
| `SettingsAreKept` (`DiskProofs`) | `SessionSpec => []SettingsKept` | `Unmixed`: until two meddle with the file, what every run under way read of it is what the user wrote, and the file is truncated only while its writer lives |
| `WriteIsNoticed` (`DiskProofs`) | `TransferSpec => []WriteNoticed` | one conjunct per stage of a visit (`Summing`, `Comparing`, `Receiving`, `Done`): each says what the run knows of the file whose inode it has open, unless someone else wrote (`racing`) or the change time is later than the recorded one |
| `KeysAreCurrent` (`ListingProofs`) | `ListingSpec => []KeysCurrent` | `ListInv` below |
| `OneResourceEach` (`ListingProofs`) | `ListingSpec => []OneEach` | `ListInv` below |
| `AllArePlaced` (`ListingProofs`) | `ListingSpec => []Placed` | `PlaceInv` below |
| `NewsAreLater` (`ListingProofs`) | `TimesSpec => []NewsIsLater` | `RecordInv`: each record holds the time of the text that history says, or none; the record holds the second of a text as a number without a sign, of which the sign comes back when it is read; a lemma for each conversion |
| `TimesAreOrdered` (`ListingProofs`) | `TimesSpec => []Ordered` | both are in nanoseconds that are less than a second (`FractionAssumption`), so that the order by second, then by nanosecond is that of instants |

`ListInv` joins the two properties of the listing to its types, because neither the
second nor the types are inductive without the first: only if every resource is found
by its link may a link that is *not* found be given to the resource of the name, or to
a new one, and only if there is one resource for a link is an entry applied to all
there is of it. `ScanAssumption` is what the scan guarantees: a path is found once,
and nothing found has a link.

`PlaceInv` says how an entry waits: what has a link hangs where its entry says (`AllHang`), an
entry is to come, put off, or has its resource (`Accounted`), and a pass over the entries put off
that has resolved nothing so far has only met entries whose folder has no resource (`Passed`).
When such a pass ends, the links that have a resource are closed under "is in a folder of", and
`Rooted` is the least such set with the root: so all of it has a resource, and by `AllHang` nothing else
has.

`TextInv` follows a text through the document that it is made of. Its frames (`Frames`) are the
document and the containers open in it, each with the number of the calls of `Val::Visit` that came to pass;
a frame determines the token that is next (`Says`) and the frames after it (`Onward`). There is a row of frames,
the `Course`, with one for each place of the text: what is left to write is what the last of them has to do (`Due`,
`Spelled`, `Expanded`); and at the place that was read, the parser expects what the frame there says
(`Expected`, `Understood`), and the builder has what was passed of each container (`Collected`, `Gathered`). Then a
parser that is done is at the end of the document, where nothing is left to write, and the builder has the
document. So no recursion over values is needed, neither to say what the text of a document is nor to prove that it is
read again. `DocumentsAssumption` says that what is written is made of strings, numbers, booleans
and nulls, arrays, and maps with finitely many keys, and that what is in a document is one too.

`XmlSound` is the discipline that `Node.cc` keeps without saying so. `Counted`: `m_ref` of an Impl is
the number of the variables that hold it, and of its places on the stack of the builder, among the
children of all Impls and among the calls of `Release` under way, and of the references that were lost.
`Tidy`: an Impl is alive exactly if it is counted, what is deleted has no children, and the sorted
vectors hold children only. `NothingDangles` is then one line: a place is a count. `NothingLeft` needs
the other direction: an Impl that is alive, is held by nobody and was not lost is a child of one that
is alive; the same is true of that one; there are finitely many, so the ascent ends at what
is held or lost, or it comes to an Impl a second time, which is then below itself. The counts are
sums over the slots, the stack, the heap and the releases, and most lemmas say how a sum changes when one place does.

The counts do not give `WellNested`: a program that held an open element could add to it, and the
one on the stack would no longer be the last child. `Nested` says why it cannot. There is a set of Impls, the
builder's own, which no variable holds and which are no child of an Impl outside (`Apart`); the stack is a
chain of them, each the last child and the last element of its name below (`Chain`), from the dummy on; and the
callbacks of expat give as many elements as there are open names (`Paired`). What the program does touches
only what it can reach, which is none of them, until `Result` hands the root out.

`Times` has assumptions of its own: the seconds fit in a long long (`SecondsAssumption`), "no
time" is none of the texts (`NoneAssumption`), a fraction is less than a second (`FractionAssumption`).

### Model-checked only

* Liveness: `RunEnds`, `Converges`, `CallEnds`. The prover has no rule for fairness.
* `NoAbort`, `IndexHonest`, `OneRunSettles` and `TwoWaySpec` outside `Flat`: they do not hold in general,
  and `tree` and `busy` check them in instances where the departures cannot occur.
* `RenamesKeepFiles`: its invariant relates the history of several runs
  to a walk with renames, as `FlatInv` does without.
* `NoGarbage` outside `Repaired`, where it does not hold in general.
* `FoundInOrder` of `Xml`: it is stated with selections from sequences, which are recursive.

## 5. Not modelled, and what is left

Not modelled:

* `Log`, `ProgressBar`, `SignalHandler`, the response log of `util/` and `http/`: output
  only. `SignalHandler` only marks the process for an end, which is `Die`.
* `bfd/`: the backtrace of an exception, for debugging builds.
* The feed of changes: `Drive::ReadChanges`, and with it `FromChange` and `GetChanges`, is called
  by nothing ("unused until Grive will use the feed-based sync", `Drive.cc:96`). The
  pages of `Feed2` are one listing here: a page that fails ends the run as a request does.
* The text of times, of XML and of numbers, byte by byte. What is kept of it is that a
  time loses its fraction and that a wrong date is not noticed (`Times`).
* `ConcatStream::Seek` to other places than the start, and `ConcatStream::Write`: no
  caller. `StdStream`: an output stream behind the interface that JSON is written to.

What is left, in this order:

1. Theorems: `FoundInOrder` of `Xml`.
2. `OneFolderNeverAborts` with folders in the root: a file in a folder that stays a folder, without
   the operations on folders that may fail.
3. The composition of `Listing` with `Grive`: the tree that `Grive` takes for given,
   by links instead of paths.

## 6. Running it

```
tlc -workers 2 -config flat.cfg MCAgreement.tla
tlapm GriveProofs.tla
tlapm RootedProofs.tla
tlapm AgreementProofs.tla
tlapm FlatProofs.tla
tlapm ExchangeProofs.tla
tlapm FormatProofs.tla
tlapm DiskProofs.tla
tlapm ListingProofs.tla
```

The module of each run is in `PROJECT.json`.
