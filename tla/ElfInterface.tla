---------------------------- MODULE ElfInterface ----------------------------
(***************************************************************************)
(* ElfInterface::CreateUsymFromFile: reads the symbol table of an ELF file *)
(* and logs the names in it.  One static parser object, s_elf, serves all  *)
(* calls.                                                                  *)
(*                                                                         *)
(* A file is a sequence of words of 4 bytes, the unit in which the fields  *)
(* of ELF.h are laid out; positions, offsets and sizes count words.  Two   *)
(* 16-bit fields share a word and 64-bit fields take two.  A string is a   *)
(* sequence of words up to one that has a NUL byte in it (the even ones).  *)
(* The kind of a symbol is left out: both branches on it are empty, as is  *)
(* the USYM that is returned.  The Reader's position is no state here: it  *)
(* is set before each read or run of reads.                                *)
(***************************************************************************)
EXTENDS Integers, Sequences, SequencesExt, FiniteSetsExt

CONSTANTS
  Files,       \* records: status, words, names (what its author put in it)
  Half,        \* values of 16 bits
  MaxReserve,  \* elements std::vector::reserve can provide
  Unspecified, \* the names of a file that is not well-formed
  SymtabName, StrtabName,  \* the words ".symtab" and ".strtab"
  MaxCalls     \* bound: calls of CreateUsymFromFile

Word == Half * Half
AddressSpace == Word * Word

ASSUME HalfAssumption == Half \in Nat /\ Half > 1

VARIABLES
  pc,        \* the function about to run, "idle", or "undefined"
  file,      \* the file of the current or last call
  data,      \* the Reader's bytes
  elf,       \* s_elf: is64Bit, header, program, sections, symbols
  logged,    \* the names the current or last call logged
  result,    \* how the last call ended
  calls,     \* number of calls so far
  seen       \* history: <<data, logged>> of each completed call

vars == <<pc, file, data, elf, logged, result, calls, seen>>

-----------------------------------------------------------------------------
(* ELF.h: sizes of the structures and where the fields used are. *)
Elf64 == [ehdr |-> 16, phoff |-> 8, shoff |-> 10, counts |-> 15, phdr |-> 14,
          shdr |-> 16, offset |-> 6, size |-> 8, sym |-> 6, wide |-> TRUE]

Elf32 == [ehdr |-> 13, phoff |-> 7, shoff |-> 8, counts |-> 12, phdr |-> 8,
          shdr |-> 10, offset |-> 4, size |-> 5, sym |-> 4, wide |-> FALSE]

Layout(is64Bit) == IF is64Bit THEN Elf64 ELSE Elf32

ELFCLASS64 == 2

(* An address or offset, of 32 or 64 bits. *)
Offset(words, at, layout) ==
  words[at + 1] + IF layout.wide THEN Word * words[at + 2] ELSE 0

(* Elf_EhdrEx::Convert and Elf_ShdrEx::Convert, fields that are used. *)
Header(words, layout) ==
  [e_phoff |-> Offset(words, layout.phoff, layout),
   e_shoff |-> Offset(words, layout.shoff, layout),
   e_shnum |-> words[layout.counts + 1] % Half,
   e_shstrndx |-> words[layout.counts + 1] \div Half]

Section(words, layout) ==
  [sh_name |-> words[1],
   sh_offset |-> Offset(words, layout.offset, layout),
   sh_size |-> Offset(words, layout.size, layout),
   name |-> << >>]

-----------------------------------------------------------------------------
(* Reader, over the words it holds *)

(* position + acLength is computed in a size_t. *)
IsOverflow(words, at, length) == (at + length) % AddressSpace > Len(words)

(* memcpy of length words from a position on. *)
Slice(words, at, length) == SubSeq(words, at + 1, at + length)

(* A read that does not fit leaves the zeroed destination as it is. *)
Read(words, at, length) ==
  IF IsOverflow(words, at, length) THEN [i \in 1..length |-> 0]
  ELSE Slice(words, at, length)

(* The offset is so large that the sum wraps around: memcpy from outside
   of the buffer. *)
IsWild(words, at, length) ==
  at + length > Len(words) /\ ~IsOverflow(words, at, length)

(* Reads one after the other.  One that does not fit does not move the
   position, so the ones after it do not fit either. *)
ReadAll(words, start, length, count) ==
  LET At(i) == start + (i - 1) * length
  IN  [i \in 1..count |->
         IF At(i) + length > Len(words) THEN [k \in 1..length |-> 0]
         ELSE Slice(words, At(i), length)]

(* ReadString stops at the first NUL; there may be none in the buffer. *)
Ends(words, at) == {i \in (at + 1)..Len(words) : words[i] % 2 = 0}
IsString(words, at) == Ends(words, at) # {}
ReadString(words, at) ==
  SelectSeq(SubSeq(words, at + 1, Min(Ends(words, at))), LAMBDA word : word # 0)

-----------------------------------------------------------------------------
(* A symbol table at start with entries of a size, whose strings are at
   strings, has the given names. *)
TableHas(words, start, size, strings, names) ==
  \A i \in 1..Len(names) :
    LET index == words[start + (i - 1) * size + 1]
        at == strings + index
    IN  IF index = 0 THEN names[i] = << >>
        ELSE IsString(words, at) /\ names[i] = ReadString(words, at)

(* What the format says of a file with the given symbol names: everything is
   inside of the file, all section names can be read, and at most one section
   is a symbol table, whose strings are in the only string table. *)
IsElf(layout, words, names) ==
  LET header == Header(Slice(words, 0, layout.ehdr), layout)
      count == header.e_shnum
      At(i) == header.e_shoff + (i - 1) * layout.shdr
      Entry(i) == Section(Slice(words, At(i), layout.shdr), layout)
      Name(i) == Entry(header.e_shstrndx + 1).sh_offset + Entry(i).sh_name
      Called(name) == {i \in 1..count : ReadString(words, Name(i)) = <<name>>}
  IN  /\ words \in Seq(0..(Word - 1))
      /\ layout.ehdr <= Len(words) /\ Len(words) < AddressSpace
      /\ words[2] = ELFCLASS64 <=> layout.wide
      /\ header.e_phoff + layout.phdr <= Len(words)
      /\ header.e_shoff + count * layout.shdr <= Len(words)
      /\ header.e_shstrndx \in 1..(count - 1)
      /\ \A i \in 1..count : IsString(words, Name(i))
      /\ names \in Seq(Seq(0..(Word - 1)))
      /\ Called(SymtabName) = {} => names = << >>
      /\ \A t \in Called(SymtabName) :
           /\ Called(SymtabName) = {t}
           /\ Entry(t).sh_size = Len(names) * layout.sym
           /\ Entry(t).sh_offset + Entry(t).sh_size <= Len(words)
           /\ \E s \in Called(StrtabName) :
                /\ Called(StrtabName) = {s}
                /\ TableHas(words, Entry(t).sh_offset, layout.sym, Entry(s).sh_offset, names)

ASSUME FilesAssumption ==
  \A f \in Files : f.names # Unspecified =>
    \E layout \in {Elf64, Elf32} : IsElf(layout, f.words, f.names)

-----------------------------------------------------------------------------
Init ==
  /\ pc = "idle"
  /\ file = CHOOSE f \in Files : TRUE
  /\ data = << >>
  /\ elf = [is64Bit |-> FALSE, header |-> Header([i \in 1..16 |-> 0], Elf64),
            program |-> [i \in 1..14 |-> 0], sections |-> << >>, symbols |-> << >>]
  /\ logged = << >>
  /\ result = "none"
  /\ calls = 0
  /\ seen = {}

(* The call ends without a USYM, or an exception leaves it; s_elf keeps what
   the parse so far put into it. *)
Fail(how) ==
  /\ pc' = "idle"
  /\ result' = how

(* LoadFromFile.  file_size throws for what is not a regular file, and
   make_unique when there is no memory.  Nobody looks at whether all of the
   file could be read; the rest of the buffer is zeroed. *)
LoadFromFile ==
  /\ pc = "idle" /\ calls < MaxCalls
  /\ calls' = calls + 1
  /\ logged' = << >>
  /\ \E f \in Files :
       /\ file' = f
       /\ \/ /\ f.status \in {"missing", "unreadable"}
             /\ Fail("nullopt")
             /\ data' = << >>
          \/ /\ f.status # "missing"
             /\ Fail("exception")
             /\ data' = << >>
          \/ /\ f.status = "good"
             /\ pc' = "ReadFileClass"
             /\ result' = "none"
             /\ \E n \in f.reads :
                  data' = [i \in 1..Len(f.words) |-> IF i <= n THEN f.words[i] ELSE 0]
  /\ UNCHANGED <<elf, seen>>

(* The class is a byte of its own, after the magic number; no other byte of
   its word is looked at. *)
IsClass64(words) == Read(words, 1, 1)[1] = ELFCLASS64

ReadFileClass ==
  /\ pc = "ReadFileClass"
  /\ pc' = "ReadElfProgramHeader"
  /\ elf' = [elf EXCEPT !.is64Bit = IsClass64(data)]
  /\ UNCHANGED <<file, data, logged, result, calls, seen>>

Undefined ==
  /\ pc' = "undefined"
  /\ UNCHANGED <<file, data, elf, logged, result, calls, seen>>

ReadElfProgramHeader ==
  LET layout == Layout(elf.is64Bit)
      header == Header(Read(data, 0, layout.ehdr), layout)
  IN  /\ pc = "ReadElfProgramHeader"
      /\ IF IsWild(data, header.e_phoff, layout.phdr) THEN Undefined
         ELSE /\ pc' = "ReadSectionHeaders"
              /\ elf' = [elf EXCEPT !.header = header,
                                    !.program = Read(data, header.e_phoff, layout.phdr)]
              /\ UNCHANGED <<file, data, logged, result, calls, seen>>

(* Mutant: what the previous parse left is kept. *)
NotCleared(vector) == vector

(* clear() on a vector of s_elf before it is filled. *)
Cleared(vector) == << >>

Sections(words, header, layout) ==
  LET headers == ReadAll(words, header.e_shoff, layout.shdr, header.e_shnum)
  IN  [i \in 1..header.e_shnum |-> Section(headers[i], layout)]

ReadSectionHeaders ==
  LET layout == Layout(elf.is64Bit)
  IN  /\ pc = "ReadSectionHeaders"
      /\ IF elf.header.e_shnum > 0 /\ IsWild(data, elf.header.e_shoff, layout.shdr)
         THEN Undefined
         ELSE /\ pc' = "ReadSymbols"
              /\ elf' = [elf EXCEPT !.sections =
                           Cleared(elf.sections) \o Sections(data, elf.header, layout)]
              /\ UNCHANGED <<file, data, logged, result, calls, seen>>

(* Mutant: the null section is counted twice. *)
StringSectionPastNull(header) == header.e_shstrndx + 2

(* GetSectionName: the section with the names, counted from 1, and where in
   the file the name of a section is. *)
StringSection(header) == header.e_shstrndx + 1

NameAt(header, sections, section) ==
  (sections[StringSection(header)].sh_offset + section.sh_name) % AddressSpace

NamesReadable(words, header, sections) ==
  header.e_shstrndx # 0 =>
    \A i \in DOMAIN sections :
      /\ StringSection(header) \in DOMAIN sections
      /\ IsString(words, NameAt(header, sections, sections[i]))

NamedSections(words, header, sections) ==
  IF header.e_shstrndx = 0 THEN sections
  ELSE [i \in DOMAIN sections |->
          [sections[i] EXCEPT
             !.name = ReadString(words, NameAt(header, sections, sections[i]))]]

(* The last .symtab counts, and the first .strtab. *)
Named(sections, name) == {i \in DOMAIN sections : sections[i].name = <<name>>}
HasSymtab(sections) == Named(sections, SymtabName) # {}
HasStrtab(sections) == Named(sections, StrtabName) # {}
Symtab(sections) == sections[Max(Named(sections, SymtabName))]
Strtab(sections) == sections[Min(Named(sections, StrtabName))]

(* Mutant: the number of symbols is one too small. *)
SymbolCountLess(size, is64Bit) == (size \div Layout(is64Bit).sym) - 1

(* symtabSize / typeSize, with the entry size of the file's class. *)
SymbolCount(size, is64Bit) == size \div Layout(is64Bit).sym

Count(sections, is64Bit) ==
  IF HasSymtab(sections) THEN SymbolCount(Symtab(sections).sh_size, is64Bit) ELSE 0

(* The entries themselves are always read as Elf64_Sym. *)
SymbolSize == Elf64.sym

(* st_name of the symbols. *)
NameIndices(words, sections, count) ==
  LET entries == ReadAll(words, Symtab(sections).sh_offset, SymbolSize, count)
  IN  [i \in 1..count |-> entries[i][1]]

StringAt(sections, index) == (Strtab(sections).sh_offset + index) % AddressSpace

(* The symbols with their names; one without a name is not looked up. *)
Symbols(words, sections, count) ==
  LET indices == NameIndices(words, sections, count)
  IN  [i \in 1..count |->
        [st_name |-> indices[i],
         name |-> IF indices[i] = 0 \/ ~HasStrtab(sections) THEN << >>
                  ELSE ReadString(words, StringAt(sections, indices[i]))]]

SymbolsReadable(words, sections, count) ==
  LET indices == NameIndices(words, sections, count)
  IN  /\ count > 0 => ~IsWild(words, Symtab(sections).sh_offset, SymbolSize)
      /\ HasStrtab(sections) => \A i \in 1..count :
           indices[i] # 0 => IsString(words, StringAt(sections, indices[i]))

(* reserve throws for more symbols than fit. *)
ReadSymbols ==
  LET sections == NamedSections(data, elf.header, elf.sections)
      count == Count(sections, elf.is64Bit)
  IN  /\ pc = "ReadSymbols"
      /\ IF ~NamesReadable(data, elf.header, elf.sections) THEN Undefined
         ELSE \/ /\ count > MaxReserve
                 /\ elf' = [elf EXCEPT !.sections = sections, !.symbols = << >>]
                 /\ Fail("exception")
                 /\ UNCHANGED <<file, data, logged, calls, seen>>
              \/ /\ count <= MaxReserve
                 /\ IF ~SymbolsReadable(data, sections, count) THEN Undefined
                    ELSE /\ pc' = "Log"
                         /\ elf' = [elf EXCEPT !.sections = sections,
                              !.symbols = Cleared(elf.symbols) \o
                                          Symbols(data, sections, count)]
                         /\ UNCHANGED <<file, data, logged, result, calls, seen>>

(* CreateUsymFromFile after Parse: every name is logged. *)
Log ==
  /\ pc = "Log"
  /\ pc' = "idle"
  /\ logged' = [i \in DOMAIN elf.symbols |-> elf.symbols[i].name]
  /\ result' = "usym"
  /\ seen' = seen \cup {<<data, logged'>>}
  /\ UNCHANGED <<file, data, elf, calls>>

Next ==
  \/ LoadFromFile \/ ReadFileClass \/ ReadElfProgramHeader
  \/ ReadSectionHeaders \/ ReadSymbols \/ Log

Spec == Init /\ [][Next]_vars

-----------------------------------------------------------------------------
(* The file of the call is well-formed and all of it was read. *)
IsIntact == file.names # Unspecified /\ data = file.words

(* A call for a well-formed file logs exactly the names of its symbols, in
   the order of its symbol table, wherever the sections are in the file and
   whatever earlier calls left in s_elf. *)
LogsTheSymbols == result = "usym" /\ IsIntact => logged = file.names

(* What is logged depends on the bytes that were read only, not on earlier
   calls, also for files that are cut off and for reads that stopped early. *)
LogDependsOnDataOnly ==
  \A x, y \in seen : x[1] = y[1] => x[2] = y[2]

(* The parser never leaves the buffer on a well-formed file. *)
WellFormedIsSafe == pc = "undefined" => ~IsIntact
=============================================================================
