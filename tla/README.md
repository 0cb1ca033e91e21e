# A TLA+ model of UniversalSymbols

UniversalSymbols converts debug symbols (PDB, in part ELF/DWARF) into one
format, USYM, and writes it as JSON or binary. This directory holds TLA+ modules
that model the program's core, TLC configurations that check them on small
instances, and TLAPS proofs for all instances.

## 1. The system

| Part | State it keeps | Operations | Talks to |
|---|---|---|---|
| USYM (`UniversalSymbolsFormat/USYM.*`) | maps of type and function symbols by id, a header, an owned serializer | `SetSerializer`, `Serialize`, `PurgeDuplicateTypes`, `VerifyTypeIds`, lookup by name | filled by a processor; `Serialize` calls the serializer, which reads the USYM back |
| Serializers (`Serializers/*`) | target file name, a json document or a growing `Writer` | `Setup`, `SerializeToFile` (header, types, functions, file) | the file system, `Writer` |
| DiaProcessor (`DiaInterface.cpp`) | three static COM pointers, a static counter for pointer names, the USYM being built | `CreateUsymFromFile` | the DIA SDK; produces a USYM |
| ElfProcessor (`ElfInterface.cpp`) | a static `ElfEx` | `CreateUsymFromFile` | `Reader`; produces an (empty) USYM |
| RECore buffers (`Buffer`, `Reader`, `Writer`) | data, size, position | read, write, grow, load, save | the file system |
| RECore containers (`REArray`, `REList`, `RETree`, `REPair`) | their elements | insert, remove, sort | nobody in the repository |
| `PdbToUni`, `DwarfToUni` | none | one conversion per process | all of the above |

There are no threads, no messages and no timers. What makes the code hard to
test is elsewhere:

* **Order.** `unordered_map` decides which duplicate survives a purge. The DIA
  SDK decides which symbol is created first, and creation is recursive, on
  demand, and sometimes repeated.
* **Partial failure.** Almost every getter of the SDK can fail and the code goes
  on: with an empty field, without a typedef's source, with a map entry whose
  type was never created.
* **Cyclic data.** Types refer to themselves through fields and typedefs.
* **State that outlives a call.** Static COM pointers, the pointer-name counter,
  the serializer's buffer, the static ELF parser.
* **Reads nobody checks.** A `Reader` refuses to read past its end, but no caller
  looks at the answer; `REArray` scans without a bound.
* **Collisions.** The hash that decides what a duplicate is cancels.

`PROJECT.json` lists each hazard at its line with the properties aimed at it.

What makes each part correct:

* USYM: a purge keeps every reference pointing at an equivalent type, keeps one
  type per hash, loses no name; a file written to its end holds what the object holds.
* DiaProcessor: every reference resolves; a readable PDB yields exactly the types
  it describes whatever the order; fields stay at their places; every call
  returns and gives COM back.
* Serializers and buffers: the bytes can be read back; position stays within
  size; growing loses nothing.
* ElfProcessor: a well-formed file gives its symbols; the result depends on the
  file only, not on earlier calls.
* Containers: the array sorts and keeps its elements, the tree is a map for every
  insertion order, the list holds what was put into it.
* PdbToUni: a complete file is closed under references, and following one leads
  to what the PDB says.

## 2. The modules

| Module | Models |
|---|---|
| `UsymFormat` | symbols as records, `operator==`, `std::hash`, `VerifyTypeIds`, the rewriting of ids |
| `Dedup` | abstract specification: removing duplicates in one step |
| `USYM` | one USYM object: serializer, purge loop by loop, verification, writing |
| `USYMProofs` | the theorems about `USYM` |
| `DiaSymbols` | the DIA SDK as the program sees it (external) |
| `DiaInterface` | `CreateUsymFromFile` for PDBs |
| `DiaInterfaceProofs`, `DiaContentsProofs` | the theorems about it: types, session, names, recursion and references; fields, arguments and faithful types |
| `ByteStream` | abstract specification: bytes written and saved in order |
| `Writer`, `WriterProofs` | the growing buffer, and the theorems about it |
| `BinarySerializer`, `BinarySerializerProofs` | the binary image, write by write, over a `Writer`, and the theorems about it |
| `ElfInterface`, `ElfInterfaceProofs` | the ELF parser and the `Reader` under it, and the theorems about it |
| `PdbToUni`, `PdbToUniProofs` | the program, `DiaInterface` composed with `USYM`, and the theorems about it |
| `KeyMap` | abstract specification: a map whose first value of a key stays |
| `RETree`, `REArray`, `REList` | the search tree; growing and sorting an array; a linked list on a heap |
| `ContainersProofs` | the theorems about the three containers |
| `SmallPdbs`, `MC*` | small contents, PDBs, files and inputs for TLC |

### UsymFormat and USYM

Names are opaque values and ids are natural numbers, with 0 as the null id.
`Hash` models the exclusive or of `std::hash<TypeSymbol>` as the set of inputs
that occur an odd number of times: equal inputs cancel, as in the code, while the
hashes of *distinct* inputs are taken to be independent. (The model has no
accidental 64-bit collisions; it has all the structural ones.) Length and field
count go through the same `std::hash<uint64_t>` and may cancel each other, which
the model has too.

`pc` is the step a running call has reached. `HashType(id)` is one iteration of
the first loop of `PurgeDuplicateTypes`, for any type not yet visited: the
iteration order of `unordered_map` is unspecified. `RewriteTypes`,
`RewriteFunctions` and `EraseDuplicates` are the other loops; their outcome does
not depend on the order, so each is one step. `Serialize` is `CallSerialize`, the
purge, `VerifyBeforeWriting` (the result is only logged) and `SerializeToFile`,
whose outcome is that the file cannot be opened, is written, is truncated by a
write nobody checks (it then has some of the first images, never the last one whole,
and the call still answers `kOk`), or, for json, that the library throws on a name
that is no valid UTF-8. `buffer` is what the serializer object holds between calls: the json
document is assigned key by key and so replaced, the `Writer` only appends. `orig`
is a history variable: the symbols when the last purge began.

`Dedup` states what the purge promises without loops: some choice of one
representative per hash, all references sent to representatives, only
representatives left. `USYM` implements it with `VisibleTypes` and
`VisibleFunctions`, which show the symbols as they were until the erasure is done.

### DiaSymbols and DiaInterface

A PDB is a record: type symbols with what each getter answers (`"fail"`,
`hasId`, `hasLength` stand for getters that do not return `S_OK`), the symbols the
global scope lists, and the functions. `IsPdb` has the assumptions on the SDK:
ids are unique, an enumerator delivers as many symbols as `get_Count` says, an
argument has a type, only structures and enums have members and the kind a getter
answers is one of its tag (`AnswersItsTag`), and a chain of typedefs ends (a language
rule; without it `CreateTypeSymbol` would not end). TLC evaluates `IsPdb` on every PDB
of the runs (`PdbsAssumption`, `InputsAssumption`).

`CreateTypeSymbol` becomes a stack of frames. A call creates the map entry
(`operator[]`) and pushes a frame; `Return` and `ReturnFalse` pop it and leave
the result in `ret`. The actions have the names of the functions:
`CreateBaseTypeSymbol`, `CreateArrayTypeSymbol`, `CreatePointerTypeSymbol` and
`CreateUnsupportedSymbol` finish in one step; `CreateTypedefSymbol` calls and
`FinishTypedefSymbol` continues; `CreateUDTSymbol` and `CreateEnumSymbol` start
the members, `CreateFieldSymbol` and `FinishFieldSymbol` make one field,
`EndMembers` ends them and `SetAnonymousUnionData` is one iteration of that loop.
`BeginList`/`BuildTypeList(o)` take the five type lists in order and the symbols
of a list in any order; `BeginFunction`, `ReturnType`, `ThisArgument`, `Argument`
and `EndFunction` are `BuildFunctionList`. `InitializeDia(p, failing)` opens a PDB
or throws at any of its four calls; `Throw` is an exception (`bad_alloc`) anywhere
later; `Catch` and `ReturnUsym` release. Names are tuples: `<<"int", 32>>` is
`int32_t`, `<<"pUnk", 3>>` is `pUnk3`.

### Writer and BinarySerializer

`data` is the array (its length is `size`), `position` the number of bytes written.
`WriteImpl(chunk)` is one write of any length: `NewSize` has the three rules of the
code (10% more, double if that is nothing, at least what the write needs), `Resize`
and `Copy` the two `memcpy`s, the latter dropping what would fall outside so that
`WritesInBounds` is the property and not an assumption. `WriteToFile` writes
`position + 1` bytes; the last one is whatever lies there, and the file may be
shorter, since nobody checks. `ByteStream` says the same without an array.

`BinarySerializer` instantiates `Writer` and keeps `todo`, the writes a call has still
to make, so that the buffer grows between any two of them. `Writes(input)` is the
sequence of calls of `Write` and `WriteString` in the code. A number of any width is
one byte; a name is a sequence of bytes without 0, and `WriteString` adds the 0. The
maps are sequences of entries, in the order the walk happens to have.

### ElfInterface

A file is a sequence of 4-byte words, the unit in which ELF.h lays out its fields; the
layouts `Elf64` and `Elf32` are the offsets of the fields used. `data` is what the
`Reader` holds: all of the file or, after a short read, a part and zeroes. `elf` is
the static `s_elf`. There is one action per function: `LoadFromFile`,
`ReadFileClass`, `ReadElfProgramHeader`, `ReadSectionHeaders`, `ReadSymbols`, `Log`.
A read that does not fit leaves zeroes; one whose end wraps around 2^64, a string
that does not end and a section index out of range are undefined behaviour
(`pc = "undefined"`, where a behaviour ends). `seen` is a history variable.

A file of the constant `Files` is its words and the symbol names it has, or
`Unspecified` for one that is cut off or damaged. `IsElf(layout, words, names)` says
what well-formed means: the header, the section headers, the sections and the strings
lie in the file, the section names' index is one of a section, and there are no symbols
or one symbol table with these names, in one string table. `FilesAssumption` demands it of every
file with names, and TLC evaluates it on the files of the runs.

### PdbToUni

`main` is where `main()` is. `DiaInterface` and `USYM` are instances that share
`typeSymbols` and `functionSymbols`; each action lets one of them step and leaves the
other's state alone. The result of `Serialize` is dropped, and an exception that
leaves it ends the program. The properties of the file use `orig`, the symbols as the
processor handed them over, for the names it made up for pointers.

### Containers

`RETree`: one `Descend` step per level of `FindEntry` or `FindPlacement`; nodes are
numbered as they are made, and `above[n]`, a history variable, holds the nodes on the
way to n. `REArray`: the recursion of `QuickSort` is the stack `ranges`, and `ScanUp`,
`ScanDown`, `Exchange` and `Split` are the parts of `Partition`. `Reallocate` copies
twice as much as the old array has, so the upper half of the new one is anything; the
upward scan may leave the range and the array. `REList`: nodes are never reused, and
following null or a deleted node sets `undefined`. `expected` and `cause` are history
variables.

## 3. The runs

| Run | Instance | Shows |
|---|---|---|
| `usym_purge` | 810 contents of 3 types (base types of two names, structures of one or two fields, typedefs, the placeholder of a failed type; a dangling id) and a function, and one content of 5 types of which two become equal only in the first purge; two calls, both serializers, all file outcomes | `TypeOK`, `ReferencesPreserved`, `PurgeKeepsVerified`, `OneTypePerHash`, `NamesSurvive`, `ImplementsDedup`, `WrittenFileIsCurrent` |
| `usym_hash` | two structures whose field types cancel | **violation** of `MergedTypesCompareEqual` |
| `dia_build` | 934 PDBs of 5 symbols referring to each other through fields and typedefs; 340 layouts of up to four fields; 960 PDBs with functions of every argument list of up to three | `TypeOK`, `ReferencesResolve`, `TypesFaithful`, `FieldsMatchMembers`, `ReentryThroughTypedef`, `ArgumentsFaithful` |
| `dia_calls` | two calls on a self-referential PDB and an empty one, failing anywhere | `SessionReleased`, `PointerNamesDistinct`, `ConversionReturns` |
| `dia_placeholder` | two structures with a field of one type that cannot be created | **violation** of `FieldTypesCarryTheirId` |
| `dia_argument_count` | functions f(int, ...) and f(...) | **violation** of `ArgumentCountMatches` |
| `writer_growth` | initial sizes 0, 1, 3, 8, 10 and 11; writes of 0, 1, 2 and 5 bytes; 12 bytes in all | `TypeOK`, `WritesInBounds`, `WasteIsBounded`, `ImplementsByteStream` |
| `binary_image` | two calls over 15 inputs whose names and numbers look alike; buffers that fit, or grow all the time | `ImagesAreUnambiguous`, `BufferEndsWithImage` |
| `elf_symbols` | two calls over 24 well-formed ELF64 files (three orders of sections, headers first or last, up to three symbols, each read fully or in part), 22 cut-off ones, two damaged ones and unavailable ones | `LogsTheSymbols`, `LogDependsOnDataOnly`, `WellFormedIsSafe` |
| `elf_class32` | the same files as ELF32, one call | **violation** of `LogsTheSymbols` |
| `pdb_to_uni` | the whole program on PDBs with duplicates, pointers, functions, failing types and a structure called `pUnk2` | `FileResolves`, `PointersSurvive`, `ReferencesKeepTheirNames` |
| `containers` | tree: 4 keys, 2 values, any order; array: up to 5 elements of 3 values, capacity 2 at first; list: 4 nodes of 3 values | `TypeOK`, `SearchOrder`, `WalkIsRight`, `ImplementsMap`, `CallsReturn`; `ElementsKept`, `SplitsAreFinal`, `SortReturns`; `HoldsExpected`, `UndefinedHasCause` |

**Bounds.** `MaxCalls` bounds the client's calls. Three types are enough for a
purge to have a type to keep, a duplicate and a referrer that is itself a
duplicate or not; five for duplicates that arise from a purge. Five PDB symbols
give cycles of each kind (field-field, field-typedef, typedef-typedef-field) next
to a type that fails; four fields give two unions that touch, and a failed field
between two. Two calls suffice for state that leaks from one call to the next.
The writer's sizes are those around which 10% rounds to nothing or one, and its
longest write exceeds both ways of growing. `MaxPosition` (12 there, 45 for two
images) bounds the bytes written. The smallest instance of the ELF parser uses 16
for 2^16, so that offsets can wrap; `MaxReserve` is what `vector::reserve` provides.
Five elements give `Partition` duplicates, sorted input, two levels of recursion and,
with a capacity of 8, garbage behind them; four keys give every shape up to a chain of
four. `pUnk2` is what a pointer is called that is reached through a field and then
listed, so the structure of that name is merged with it in the run. `CHECK_DEADLOCK
FALSE` is set because a client may stop calling and the program ends. That calls return
is checked where it could fail: on self-referential types (`ConversionReturns`), on the
tree (`CallsReturn`) and in the sort (`SortReturns`). The loops of a purge and of a
serializer each walk one finite map.

**Fairness.** Weak fairness on the steps of a running call only, in `DiaInterface` and
the containers: the program is sequential and waits for nobody inside a call. The
client's calls and exceptions are not fair. The other modules state no fairness.

**Findings.**

1. `usym_hash`: `PurgeDuplicateTypes` trusts the hash. Structures of one name and
   size (unnamed ones, say) whose fields have types (a, a) and (b, b) are merged,
   and users of one get the other's fields. `USYM.h:141` asks whether the hash
   works.
2. `dia_placeholder`: a type that cannot be created leaves an entry with id 0. The
   first field of that type is emptied, a later one refers to the entry. Unit
   tests expect an entry to carry the id it is found under. (The binary image writes
   the id inside the entry, so a reference that `VerifyTypeIds` found has no type in
   the file.)
3. `dia_argument_count`: a btNoType argument is dropped as a stub if nothing was kept
   before it, but the count stays what the SDK said. The assertion behind the loop wants
   the two to agree and the comment in it wants an ellipsis to be kept. If the count
   includes the ellipsis (or f(int, ...) would fail), f(...) has a count of 1 and no
   argument: a debug build stops, a release build writes both.
4. `elf_class32`: the entries of an ELF32 symbol table are counted as `Elf32_Sym` and
   read as `Elf64_Sym`, so other fields are taken for names.

Seen while reading, and not the subject of a run: a second binary `Serialize`
writes the earlier image in front of the new one (the models have it;
`WrittenFileIsCurrent` and `BufferEndsWithImage` say only that the last image is
there); a file cut off by a failing write is reported as `kOk`, for neither serializer
looks at its stream after opening it; a structure the size of a pointer, without fields,
that is called `pUnk1` can be merged with a pointer of that made-up name, in either
direction (`PointersSurvive` and `ReferencesKeepTheirNames` say that nothing else is); `BinarySerializer.h:18` says 1MB and reserves 1GB; `Writer::WriteToFile`
writes one byte too many; when a field fails between two anonymous unions both get
the same `unionId` (which is why `TypesFaithful` speaks of readable PDBs and
`FieldsMatchMembers` only of neighbours); symbols fetched into raw pointers are never
released; `REList::Remove` leaves `pHead` at a deleted node when it removes the
first, and runs off the end for a value that is not there; `PdbToUni` cuts its
argument at the last dot even if that is in a directory's name.

## 4. The proofs

For every value of the constants, under the named assumptions, which TLC evaluates in
the runs.

**`USYMProofs`**, for any `TypeIds` (without 0), `FunctionIds`, `Names`, `Contents` (well
typed) and `MaxCalls`.

* `TypeCorrect`: `Spec => []TypeOK`. Lemmas `RedirectTypeTyped` and
  `RedirectFunctionTyped`: rewriting keeps symbols well typed.
* `PurgeInvariant`: `Spec => []PurgeInv`. None of the properties below is
  inductive: they speak of the end of a purge. `LoopInv` says what the first loop
  has established: every visited type is kept or mapped to a kept type of its
  hash, and `hashesToIds` is exactly the kept types by hash. `ProgressInv` says, for
  each step, which symbols have been rewritten. `HashTypeKeepsLoopInv` is the heart.
  (`PurgeInv` was model-checked on the instance of `usym_purge` first.)
* From `PurgeInv`: `ReferencesArePreserved`, `OneTypeIsKeptPerHash`,
  `PurgeKeepsTypeIdsVerified` and `NamesAreKept`. The last one needs
  `HashDeterminesName`: the name is the only string among the inputs of the hash,
  so nothing cancels it.
* `PurgeImplementsDedup`: `Spec => Abstract!Spec`. Every step stutters except the
  erasure, which is a `RemoveDuplicates` step with the representative
  `Redirect(oldToNew, t)`.
* `WrittenFileAlwaysCurrent`: an action property, of files written to their end. Its
  strengthening is `OutputInv`: a `Serialize` that runs has a serializer, and what that
  holds is a sequence of images.

**`DiaInterfaceProofs`, `DiaContentsProofs`**, for any `Names` with the empty one, any
`Pdbs` that satisfy `IsPdb` (any graph of types, any getter failing, any order of
listing) and any `MaxCalls`.

* `TypeInv` = `SessionInv` (what is held at each step), `ListInv` (a function in progress
  has its entry) and `StackInv` (every call on the stack is for a symbol that can be
  read, has its entry in the map, and is in a step that symbols of its tag have).
  `TypeOK` alone is not inductive: that a frame may look at member `next`, or write to
  its entry, follows from the step it is in. Hence `DiaTypeCorrect` and
  `SessionAlwaysReleased`.
* `MapInv` adds that every pointer is named after a counter value already drawn, that no
  unfinished symbol is a pointer, and that an unfinished symbol, and what a frame will
  add when the call it waits for returns, refers to entries that exist. It rests on
  `CreateEffect`, what one call of `CreateTypeSymbol` does to the map. Hence
  `PointersNeverShareAName`, `ReentryOnlyThroughTypedef` and `EveryReferenceResolves`.
* `FieldsInv` says how many fields a symbol on the stack has at each step, which member
  each is or that it was emptied, and up to which field unions have been marked: a
  creation can be interrupted between two fields by another of the same symbol.
  `ArgumentInv` does the same for the arguments of the function in progress, and for
  its count, which is the SDK's as soon as it was asked for. Hence
  `FieldsAlwaysMatch` and `ArgumentsAlwaysFaithful`.
* `TypesAlwaysFaithful`: `Spec => []TypesFaithful`, the converter's promise for a PDB in
  which all that can be reached is readable: exactly the reachable types are there, each
  as the PDB has it. `FaithfulInv` has two halves. `EntriesFaithful`: only reachable
  symbols are entered, an entry is the described type unless a call for it is on the
  stack, and such a call holds exactly the members, or the unions counted so far, that it
  has passed. `RootsEntered`: what the lists and the functions have asked for so far is
  entered. When a call is over, the entries contain the roots and no reference leads out of them;
  what can be reached is the least such set (`ReachableIsLeast`), so nothing is missing.

**`ElfInterfaceProofs`**, for any `Files` (well-formed, cut off or damaged), any sizes of
the sections and any number of calls.

* `ParseInv`: at each step of a call, everything of the static `s_elf` the rest of the
  parse reads is a function of the words read by this call. Hence
  `LogAlwaysDependsOnDataOnly`, although `elf` itself keeps remains of earlier calls.
* `Elf64IsSafe` and `Elf64SymbolsAreLogged` assume `OnlyElf64`: the files that are
  well-formed are ELF64. Finding 3 shows that they are false for ELF32. Nothing is
  assumed of the other files. The lemmas say of each operator of the model (`Sections`,
  `NameAt`, `Symtab`, `Symbols`, ...) what it yields on words that satisfy `IsElf`.

**`PdbToUniProofs`**, for any PDBs as above whose ids are in `TypeIds` and `FunctionIds`.

* `WrittenFileResolves`: `Spec => []FileResolves`, the property of the program as a
  whole. The proof instantiates `DiaContentsProofs` and `USYMProofs`: while the processor
  runs, its invariants hold of the maps; when `main` calls `Serialize` they make
  the state one `PurgeInv` holds of, for the names of the PDB and those the processor
  makes up; from then on `PurgeInv` and `OutputInv` hold, and `pdb` and `orig` stay. At
  the write, `ReferencesPreserved` carries resolving over from `orig` to the file. The
  lemmas `Same...` say that the actions `PdbToUni` composes are the ones the two
  modules prove about.
* `PointersAlwaysSurvive` and `ReferencesAlwaysKeepTheirNames` carry more over: when the
  processor is done, its symbols describe the PDB (`IsDescription`, from `FaithfulInv`),
  and `OrigDescribed` keeps that for `orig`. Types the purge merges have one hash, hence
  one name, and no two pointers share one. Nothing is assumed of the names in the PDB.
  The code does not see to it that none is one `GeneratePointerName` makes up (`pUnk1`,
  ...), so a pointer may share its name with a type that the PDB itself gives that name
  (not with a base type: `BaseNameNotGenerated`), and the two theorems say exactly that.

**`WriterProofs`**, for any `Bytes` with 0, `Chunks` of bytes, initial sizes and
`MaxPosition`.

* `WriterTypeCorrect`, `PositionStaysInBounds`, `WasteStaysBounded`: invariants. The
  three are inductive together. Lemmas about `NewSize` carry them: it is at least the
  old size plus the write, and at most twice the position after it.
* `WriterImplementsByteStream`: `Spec => Stream!Spec`, with the first `position` bytes of
  the array as the abstract `written`. It needs the bounds: a `Copy` that leaves the
  array would lose bytes.

**`BinarySerializerProofs`**, for any inputs of any length (`InputsAssumption`: symbols as
`USYM` has them, and names without the byte 0, which C strings are), any initial sizes
and any number of calls.

* `ImagesAlwaysUnambiguous`: `Spec => []ImagesAreUnambiguous`. The proof is a parser. Two
  images that agree from some write on (`Reads`) have the same number or the same name
  there and agree from the next write on; the counts say how many writes there are in
  each list, for the fields, arguments, types and functions in turn. That a name is
  told apart needs its terminator.
* `BufferAlwaysEndsWithImage`: `Spec => []BufferEndsWithImage`. `BufferInv` adds to the
  invariant of the `Writer`, taken from `WriterProofs`, that what is written and what is
  left to be written end with the image (`ImageIsComing`), and that a file begins as the
  array does (`FileBegins`).

**`ContainersProofs`**, for any keys that are natural numbers, any values, any integers in
the array and the list, any capacity of at least 1 (`ContainersAssumption`) and any
number of nodes and calls. The theorems about the array and the list hold of each
container by itself and of the use of one of the three (`MCSpec`).

* `TreeInv` is the inductive invariant: `SearchOrder` alone says nothing of nodes a new
  link could bypass. It adds that all nodes are below the head and every way contains
  its node (`Rooted`), that a node's way is its parent's way and itself
  (`LinksExtend`), that keys are unique (`UniqueKeys`) and that a walk is where its key
  belongs (`PathIsRight`). (Model-checked first.)
* `TreeTypeCorrect`, `TreeStaysOrdered`, `WalksAreRight` follow, and
  `TreeImplementsMap`: `Spec => Map!Spec`, where only the steps that end a call, and
  those on an empty tree, do not stutter.
* `ElementsAlwaysKept` and `SplitsAlwaysFinal` follow from `ArrayInv`: the ranges still to
  be sorted are disjoint (`Disjoint`), any two elements are in order unless one of these
  ranges has both (`Separated`), and the scans have left larger elements above and others
  below (`Partitioning`). An upward scan may run past its range, but it stops at an element
  larger than the pivot or leaves the array, and nothing is exchanged out there.
* `ListAlwaysHoldsExpected` and `UndefinedAlwaysHasCause` follow from `ListInv`: as long as
  nothing went wrong by the caller's doing, links lead forward, the nodes on the way from
  the head have the expected values, and the others are exactly the deleted ones.
  `ChainIs` says that the recursive `Chain` is the one sequence of nodes that follows the
  links, and `RemoveFirstIs` which value a removal takes out. (`ArrayInv` and `ListInv`
  were model-checked first.)

Some of this is induction over data: what `FlattenSeq` yields, or the chain of a list.
The provers cannot use the library's induction theorems, which take an operator. The
modules derive induction over a *set* of natural numbers from `NatLessThanWellFounded`
and `WFMin` instead (`LeastNatural`, `Induction`), and say of a recursive function that
it is the only one with its defining equations.

Only model-checked: liveness (`CallsReturn`, `ConversionReturns`, `SortReturns`), since
fairness is beyond the prover. All other properties of the passing runs
are theorems.

## 5. Not modelled

* Third-party code under `Vendor` (nlohmann json, the DIA SDK's headers and samples,
  gtest, benchmark), which is about 97% of the lines of the repository. What the
  program sees of the SDK is `DiaSymbols`.
* `DwarfToUni` (one call of what `ElfInterface` models, on a fixed path, nothing
  serialized), Windows helpers and `StringConverter` (wrappers without state), logging,
  tests and samples.
* Of the parts that are modelled: reference counts of single COM objects, the text of
  the json file, file names, `Reader`'s peeking and `ReadString(length)` and moving a
  `Buffer` (nobody does), copies of containers (which would share their memory), adding
  an element of an `REArray` to that array, and crashes of the unbounded scan.
* Of the SDK: a `get_Count` of members that fails or says something else than the
  enumerator delivers (the assertion in `CreateMembersForSymbol` rules it out);
  `CoInitialize` failing, whose answer the code does not look at; and an exception in the
  few moves between `Release` and the end of `CreateUsymFromFile`, which would release
  twice. None of these is claimed to be harmless.

## 6. Plan

1. Done: `UsymFormat`, `Dedup`, `USYM`; `DiaSymbols`, `DiaInterface`; `Writer`,
   `BinarySerializer`; `ElfInterface`; `PdbToUni`; the containers; the proofs above.
2. Done: theorems for every invariant and action property the runs check, and for the
   refinements.
3. Open: the liveness properties as theorems, once a prover supports fairness; their
   variants (symbols not yet created, the length of a typedef chain, the sum of the
   ranges to sort) are the ones the runs exhaust.
