# Verification of myasm

myasm is a two-pass assembler for AArch64 in about three thousand lines of C. It reads one source file
and writes one relocatable ELF object. This directory holds TLA+ models of it, configurations that
check them with TLC, and proofs checked by TLAPS.

myasm is one thread without shared state. What makes it hard is not concurrency but *agreement*: the same
file is walked twice by two different loops, tables refer to one another by index, file offsets are sums
of counters that nobody compares with the file, words are put together from fields that nobody keeps apart. Each
of these is kept right by code in several places, and when one of them drifts, the output is a well-formed object
with wrong contents.

Paths below are relative to the repository, which is found under `src/`; `assemble.c:48` is line 48 of
`src/src/assemble.c`.

## Inventory

| Part | Where | State | Operations |
|---|---|---|---|
| Driver | `myasm.c`, `make` in `assemble.c` | `ERRORS`, the three open files | `main`, `make`, `error*` |
| Lexer | `lexer.c` | read position of the source, `LINE`, the buffers of the tokens | `getToken`, `getTokenType` |
| Parser | `parser.c` | none | classification and values of texts |
| Two-pass assembly | `assemble.c` | the counters of `makeLabels`; `CONTEXT.pc`, `cur_sndx`, `size`; the array of fields | `makeLabels`, `collectLineOfTokens`, `makeAssemble` |
| Directives | `directives.c` | none of its own | `execDirective` and the seven `d…` handlers, `getDirectiveSize` |
| Instruction selection | `instructions.c:1-162, 1207-1278` | none | `assemble`, `getInstructionType`, `compareSignatures`, `instructionIndex` |
| Encoders | `instructions.c:164-1205` | none of their own | eighteen kinds of instruction |
| Tables | `tables.c:1-285` | `SYMBOLS`, `SECTIONS`, `RELOCATIONS`, their capacities and memory | `addToSym`, `addToShdr`, `addRelocation`, `searchTable`, `changeBinding`, `resize*` |
| Object file writer | `tables.c:287-465` | the same tables, the output file | `writeElf`, `backpatch`, `writeTables`, `sortSymbols`, `dumpRelocations`, `writeHeader` |
| Types | `types.c`, `include/types.h` | tokens and fields | allocation, copying and resizing of tokens |

How they interact. `main` picks a source and an output and calls `make`, which opens a temporary file and the source
and runs `makeLabels` over the tokens (pass 1); that enters every label with a section index and an address of its
own counting. `make` rewinds the file and runs `makeAssemble` (pass 2), which asks `collectLineOfTokens` for a line
and dispatches it to an encoder or a directive. Those read the symbol table, extend the section and relocation
tables, advance `CONTEXT` and write to the temporary file. `writeElf` then completes the tables and appends them to
that file, and `make` copies it to the output. Errors do not stop a pass: they set the global `ERRORS`, most encoders
then return no word, and at the end the output is not written.

The behaviours that are hard, and what correctness means for each part:

* **Two-pass assembly.** The two passes must count the same section and address before every line, although
  pass 1 sees tokens (and takes an operand along only for `.zero`, `.ascii`, `.asciiz`) and pass 2 sees lines
  of at most `FIELDS_SIZE` tokens, drops an unterminated last line and executes malformed lines with the
  operands of earlier ones still in the array. A label must have the section and address its code is written at.
* **Directives.** What `.section` records must be the position in the file, whatever failed before it; `.global`
  works before and after the declaration.
* **References.** A label in the same section is encoded as a distance, any other label becomes exactly one
  relocation, in the entry of its own section. `resizeRelocationsSection` silently relies on relocations going to
  the last entry only.
* **Instruction selection.** The search takes the first row that fits and never takes an optional slot back, and the
  encoder behind it reads operands by fixed numbers: table and encoders must agree.
* **Encoders.** Every operand of an accepted line has to be found again in the word, and every immediate a logical
  instruction can hold has to be accepted.
* **Table memory.** Arrays grow when a count is compared with a capacity, strings are found by counting zeros and
  measured by looking for an empty string, in memory that `realloc` does not clear.
* **Symbol order.** `sortSymbols` renumbers symbols which relocations, and the string table, name by number.
* **Object file writer.** Header indexes are written before the headers they name exist, offsets are computed in
  one loop and contents written in another.
* **Lexer.** Both passes must read the same tokens on the same lines, although their buffers grow differently, and
  `getToken` puts characters back by stepping back in the file.
* **Driver.** A run must leave the files alone or deliver one whole object, whatever fails on the way, keep its source
  however that is spelled, close what it opened once, and say in the exit status what happened.

`PROJECT.json` lists each hazard with its line and the properties that cover it, or the reason why none does.

## Modules

| Module | Models | Role |
|---|---|---|
| `Tables` | searches and insertions of `tables.c` as operators | shared by all |
| `Assembler` | `assemble.c`, `directives.c`, the label encoders and error handling of `instructions.c` | component |
| `InstructionTable` | the rows of `instructions.c` and the searches by mnemonic | shared by the next four |
| `Signatures` | the search for a row and what the encoders expect of the operands | component |
| `Operands` | what `parser.c` makes of the texts of operands; the bits of a word | shared |
| `BitmaskImmediate` | `encodeBitmaskImmediate` | pure function |
| `Encoders` | the encoders: which lines they accept and the word they return | component |
| `WordMeaning` | the A64 layout read backwards: what a word says | reference for `Encoders` |
| `Lexer` | `getToken` as both passes call it, `resizeToken` | component |
| `StringTable`, `RelocationGrowth` | the memory of the tables and its growth | components |
| `TableSizes` | the size all tables begin with | shared by these two |
| `SymbolSort` | `sortSymbols`, `swapInSym` | component |
| `ElfWriter` | `writeElf` and all it calls | extends `SymbolSort`, whose steps it takes while it sorts |
| `Delivery` | what a run does to the files around it | abstract specification |
| `Driver` | `main` and `make` | implements `Delivery` |
| `MCAssembler`, `MCSignatures`, `MCEncoders`, `MCLexer`, `MCTableMemory`, `MCElfWriter`, `MCDriver` | source files, lines, texts, tables, command lines for TLC | instances |
| `TablesProofs`, `AssemblerProofs`, `ElfWriterProofs`, `TableMemoryProofs`, `LexerProofs`, `SignaturesProofs`, `WordMeaningProofs`, `DriverProofs` | | theorems |

What a part takes from another is stated as an assumption on its constants: the tables `ElfWriter` starts with are those
`Assembler` ends with (`AssembledAssumption`, `SymbolTablesAssumption`), the tokens of `Assembler` those `Lexer` reads
(`SourcesAssumption`), the lines of `Encoders` those `Signatures` has found a row for
(`LinesAssumption`: the operands the row takes, with any number in them). `Tables` speaks of sequences of
names; `StringTable` shows when the bytes behave like them.

### Tables

The null entries with index 0 that `initSymbolTable` and `initShdrTable` write never change and are implicit, so
that index *k* of a TLA+ sequence is index *k* of the array and `SYMBOLS.count` is `Len(symbols) + 1`. A string
table is the sequence of its names, and `st_name`, a byte offset in C, is the ordinal of the name. `SearchTable`
is `searchTable`: the first match from entry 1, or -1.

### Assembler

| Variable | C |
|---|---|
| `src`, `pos` | the tokens `getToken` delivers and how far it has come |
| `phase` | which loop is running: `labels` (`makeLabels`), `head` and `args` (the two loops of `collectLineOfTokens`), `assembled`, `rejected` |
| `scan` | `section_ind` and `pc` of `makeLabels` |
| `trail` | history: `scan` before every token; no action reads it except to extend it |
| `strtab`, `symbols`, `sections`, `relocs` | the three tables |
| `fields`, `nf` | `f.fields` (stale entries included) and `f.n_fields` |
| `pc`, `cur_sndx`, `size` | `CONTEXT` |
| `written` | write position of the temporary file behind the ELF header |
| `emitted` | for each word that names a label: where it is and its displacement field |
| `errors` | `ERRORS` |

One step is one call of `getToken` or the execution of one collected line with everything it calls.
`Declare`, `CountToken`, `CountSized`, `EndLabels` are pass 1; `SkipToHead`, `TakeHead`, `TakeField` collect a
line; `AssembleReference`, `AssemblePlain`, `ExecSection`, `ExecGlobal`, `ExecNumber`, `ExecZero`, `ExecText` and
`ExecUnknown` execute it; `EndAssemble` ends pass 2.

Abstractions. A token is already classified: `[type, text, n]`, where `n` is the value of a number or the
length of a string. A declaration can be a number too: directives parse the text of their operand, from which the colon of
`.zero 5:` has been cut (`Numeric`; `NumberTexts` are the texts that parse, the empty one of a lone colon among them). Texts are members of a set; the mnemonic token `b.` is written `b_cond`. The instructions
that take a label are rows of `References`; `br` and `ret` stand for the encoders without one, which all
behave alike towards the state: check the operands, return a word unless `ERRORS` is set. `cbnz`, `tbnz`,
`adrp` and `ldrsw` differ from their neighbours in the same row only in an opcode bit and a width check.
`bl` differs from `b` in the relocation type. Bytes written are counted, not kept; the words themselves are in `Encoders`.

`SourcesAssumption` and `OperandAssumption` say which files are considered. The second excludes `.ascii` without
a string: `dAscii` then reads past its token until it meets a quote, and no outcome can be stated for it.

### Signatures

`INSTRUCTIONS` (in `InstructionTable`) is the C table row by row, a slot being a set of token types and whether it may be
missing. `row`, `i` and `j` are the indexes of `getInstructionType` and `compareSignatures`, one step is one turn of the
inner loop (`MatchArg`, `SkipOptional`, `RefuseRow`) or the end of a row (`EndRow`); `FallBack` is what `assemble` does
when no row fits, and `Encode` the encoder. `type` is the `InstructionType`, `errors` is `ERRORS` for this line.

`Encode` looks at the types of operands: which fields each encoder parses (`Reads`), as what, and what it checks of
the operands a row has optional (`OptionsParse`). The texts are taken to be right, so a line is refused here for its
shape only; `Encoders` has the refusals by value.

A line is a mnemonic and the types behind it (`LinesAssumption`): up to nine, ending in `EOL`, or nine without one.

### Encoders, Operands, BitmaskImmediate, WordMeaning

A word is the set of its one bits, so that a field that runs into its neighbour does here what `|` does there. One action
of `Encoders` is one encoder with all its checks; `Return` is its end: `errors` and the word, or no word. Registers are
parsed by `ParseRegister`, which has the quirks of `parseRegister` (30 is no number of a register and `lr` none of the
names it lets through). An encoder's line is a record with the operands of its type; labels are a distance, or `here = FALSE`
for one in another section.

`BitmaskImmediate` follows `encodeBitmaskImmediate` with a `u64` as a set of bits. `__builtin_ctzll(0)` is undefined
and is every count from 0 to 64 (`CtzOfZero`).

`WordMeaning` is written from the layout of the A64 classes, not from the encoders: `WordMeansLine` says that the word, read
alone, gives back the mnemonic, every register (with 31 read as `sp` or `zr` as the class demands), number and option of the
line. `Misencoded` lists the lines for which the code makes another word; see *Divergences*.

The words were also compared with those of a build of the program: for about 13100 accepted lines taken from the
instance (lines with labels left out) the model and the program return the same word, and of about 6000 the model
refuses the program accepts none.

### Lexer

A character counts by what `getToken` does with it: eight classes. `text` is the file, `pos` the position of the next
`getc`; `value` the characters stored so far, `at` which of its loops `getToken` is in; `capacity` the size of the buffer of
each field. Pass 1 reads into one buffer; pass 2 has one for each field, and `Collected` is what `collectLineOfTokens` does
with a token, so that `Field` is the buffer of the next one. `Grown` is `resizeToken`, a `u8`. `read` is a history of the
tokens of each pass with the value of `LINE`. One step is one character. A buffer that has been left (`overrun`) ends the
behaviour: what the program does then is undefined.

### StringTable and RelocationGrowth

`mem` is `strtab` or `shstrtab` byte by byte, `Start` finds the place behind as many zeros as `concatStrs` counts (`Nuls`), `StringTableSize` looks for the
empty string as `getStringTableSize` does, `Doubled` is what `resizeSymTable` and `resizeShdrTable` make of the memory, the
new half being whatever `Leftovers` allows: `xrealloc` does not clear. Four history variables say how far this matters:
`added` are the names, `filled` is where the next one belongs, `clear` how many bytes were zero when they were obtained
(those of the first table, by `xcalloc`, and more only when what was left happened to be zero), and `reached` that a name
has begun behind them. `slack` is 1 for `addToSym`, which compares with the capacity plus one.
`RelocationGrowth` keeps the sizes of the arrays of `addRelocation`: the table in bytes as `resizeRelocationsTable` computes
them, and the count and capacity of each record. `faults` says in which way memory has been misused. `MCTableMemory` puts the two
side by side; they share no state.

### SymbolSort

`lo` and `hi` are `i` and `end`; one step is one turn of a loop (`PassGlobal` the inner, `StepInward` the outer).
`unsorted` is a history variable with the tables as they were. `SymbolTablesAssumption` is what pass 2 leaves
behind (`Assembler`'s type invariant, and distinct names because `addToSym` refuses a second one).

### ElfWriter

`step` is where `writeElf` is, `symtab_ind` the local of `dumpRelocations`, `entry` how far a loop over the relocation
sections has come. `DefaultSection` and `Backpatch` prepare the sections, `SortSymbols` takes the steps of `SymbolSort`,
`DumpRelocation` adds the header of one relocation section, `AddTables` the three of the tables and moves all of them behind
the ELF header; then `WriteRelocations` (one section at a time), `WriteTables` and `WriteHeader` write. `sections` holds the
headers, `file` the list of pieces of the output with the position at which each is really written, `ehdr` the three fields
of the ELF header that depend on the tables.

`AssembledAssumption` and `NamesAssumption` exclude sections named like the tables `writeElf` adds, and more headers than a
`u8` counts; both are hazards the code does not check for. `NamesAssumption` also says that `.rela` names differ when their
numbers do, which the provers do not know of the conversion to digits. `align` sets a field nothing reads and is left out.

### Delivery and Driver

`Delivery` knows the files and one job: a run refuses and touches nothing, or begins to replace one file by the object of an
accepted text, extends it and delivers it when it is whole. When the system loses bytes the file is torn, which is an end of its own
and no delivery. `Driver` has the loops of `main` (`ReadWord`: one call of `getopt_long`;
`ConsiderWord`: one turn of the loop that looks for the source, in the order `getopt_long` leaves the words in) and the calls of
`make`, each of which may fail where the code checks for it. A stream is unopened, open, closed or closed twice; the last is
undefined, and the run goes on or is aborted. A text counts by the pass that finds errors in it; `Assembler` and `ElfWriter`
say what happens inside. A path is a spelling, and `FileAt` the file it leads to: `access` and `fopen` see files, `strcmp` in `main` sees spellings
(`Candidate`), so `x.s` and `./x.s` are one file and two words. Neither `fputc` nor the last `fclose` is looked at, so any byte
may be lost there without notice (`LoseBytes`). Without memory the program exits from within the passes (`OutOfMemory`, with an exit
status of its own in the model: `make` does not return then).
The refinement mapping is `Objects`: `disk` is `files`, `Job` is the output with the text assembled, `Verdict` follows the stream
of the output, and is `torn` when the output is.

## Runs

| Run | Question | Bounds |
|---|---|---|
| `layout` | are labels where their code is, and is every reference resolved or relocated, once, in the entry that grows last? | all files of up to 4 of 9 lines with two sections, two labels, data of every kind and an instruction; all of up to 4 of 9 lines that declare a label and refer to it through every width of field, over a gap of 40000 bytes that exceeds the 14 bits of `tbz`; all of up to 7 of 4 lines that begin with a label, with relocations in several sections |
| `faulty` | what do errors, over-long lines and truncated files do to the count, and do both passes end? | all files of up to 3 of 28 lines, whole and without their last token; of up to 3 of 6 lines with numbers for labels (`.zero 5:`); 5 fields instead of 10 and a `u8` of 3 values, so that lines are cut and the section counter wraps within three lines |
| `repeated_section` | is a symbol's section index that of a header? **no** | files of up to 4 lines |
| `signatures` | does every line find the encoder that fits it? | 18 mnemonics, at least one of every row; every line that fits, and every line one operand away from one (left out, put in, changed); one line without `EOL` |
| `words` | does a word mean its line? | every encoder; registers of both sizes, `zr`, `sp`, and texts that are none; numbers at and on both sides of every bound; every pattern of a logical immediate with three of its neighbours |
| `high_runs` | does a word hold the immediate it was accepted with? **no** | the 63 runs of ones that end with bit 63 |
| `lexer` | do both passes read the tokens of the text? | every text of up to 4 of 13 pieces with a line end behind it, and of up to 3 without; sizes an eighth of those of the program, so that the capacities 5, 10, 20, 8 stand for 40, 80, 160, 64 |
| `memory` | when do the bytes behave like a sequence of names, and when are arrays left? | 6 names of up to 3 bytes, one empty, one too long, up to 5 of them; tables of 2 entries, which grow twice, each time into zeros, rubbish without a NUL, or rubbish that begins or ends with one; up to 5 relocations in a section and a section counter that wraps |
| `elf` | does sorting keep everything, and do headers, links and offsets describe the file? | every table of up to 6 symbols, all bindings, `_start` anywhere or absent; up to 2 sections, 3 symbols, 2 relocation sections, code in front of the first section or not |
| `locals_first` | are all locals in front of the first global? **no** | up to 4 symbols |
| `driver` | does a run implement `Delivery`, and close what it opened? | command lines of up to 3 words over 5 spellings of 3 files (`a.out` and `x.s` with two each), every content of the files, every call that can fail failing, every byte of an object of 2 kept or lost |
| `success` | is there an object after a successful run? **no** | the same |

Why the bounds are enough. The passes are compared line by line, and a line's effect depends only on its own
tokens, the section and address it starts at, and whether an error was reported before: every pair of lines in both
orders, with a third that observes the result, covers the ways one line can disturb another. For sorting, six symbols
contain every arrangement of two indexes meeting (odd and even distance, after a swap and without one), with `_start` left,
right and in the middle of them. For the writer, two of each kind of table distinguish first, middle and last
header. For the table of instructions, lines one operand away from a fitting one are those where two rows, or a row and an
encoder, can be confused. An encoder handles each operand by itself, so bounds of one operand are combined with a few values
of the others. A token of the lexer is decided by at most three pieces (what is in the buffer, the piece that ends it, what
follows), and a buffer's history by the two strings that make it grow and shrink. A command line of three words has an
operand, an `-o` and one more in every order; an object of two bytes has one lost before the last, at the last, and when the stream is
closed. Most of these bounds are removed by the theorems below.

The properties:

* `TypeOK` (`layout`, `signatures`): the type invariants; the first says that both tables of names stay beside their
  records, the second that the operand index stays in the `Signature` even for a line without `EOL`.
* `PassesAgree`: before each line of pass 2, section and address are those pass 1 had before the
  same token. It is stated for files whose instructions and directives lead their lines (`StatementsLead`) and until
  an error is reported, since after an error the passes are known to part and no output is made.
* `LabelsWhereDeclared`: the same for what was stored in the symbol table, under the same premises.
* `SectionsInOrder`: offsets ascend and do not exceed the size, errors or not; `backpatch` subtracts them unsigned.
* `OffsetsAreFilePositions`: without errors the counters equal the write position of the file. After an error they need not, which
  does no harm only as no object is delivered then (`DeliversOrRefuses`).
* `ReferencesResolve`, `RelocationsGoLast`, `GlobalsAsDirected`, `Terminates`: as the comments above them say. `ReferencesResolve`
  asks for a distance only where the field can hold it; what becomes of the others is `Misencoded` in `words`. `GlobalsAsDirected`
  has the premise `StatementsLead` too.
* `SelectionIsExact`: the walk takes an optional slot whenever it can and never goes back; it still finds a row exactly when
  some choice of optional slots makes one fit (`Fits`, which knows no order). `OneRowFits`: the order of the rows does not
  matter. `OperandsInPlace` and `OpcodesAgree`: the encoders agree with the row on field numbers and opcodes.
  `OptionsComplete`: what the table leaves half open, an encoder refuses, except for indexed loads and stores.
* `MeansItsLine`: the word of an accepted line means the line *exactly when* the line is not in `Misencoded`; the list is
  complete and has no line too many. `PatternsAccepted`: a logical immediate is accepted exactly when it is the repetition of a
  rotated run of ones, stated without the algorithm (`IsPattern`); with a 32-bit register nothing is said of 0xffffffff and of
  immediates with bits above the lowest 32, which are let through (`FitsRegister`). `PatternsHeld`: an accepted immediate is the one in the word.
* `TokensOfText`: the tokens and the one begun are the text read so far without blanks and comments, although `getToken` steps
  back, and `LINE` is the line. `PassesReadAlike`: pass 2 reads what pass 1 has read or stops earlier with an error.
  `StaysInBuffer`: the two ways, and only those, in which a buffer is left: a string longer than four times its size, or one
  that begins in its last places. `ReadsToEnd`: every file is read to its end.
* `SearchesNames`: looking a name up in the bytes gives what `Tables` says, through growth and with empty names.
  `OffsetsNameEntries`: an entry's offset is where its name begins exactly when no name before it is empty. Both are said until a name
  begins in memory nobody has cleared, the strings are overrun, or a name is as long as a token and is cut (`Clean`); behind
  that point they are false, and nothing is claimed.
  `StaysInArrays`, without any premise: the items are left exactly when `addToSym` has filled its first table; the strings only when
  a name has begun in memory nobody has cleared, or in a full symbol table of names as long as they can be.
  `SafeUntilGrown`, `FreesWhatWasSet`: up to as many sections with relocations as the table starts with nothing is misused,
  and below that number only what was set is freed.
* `RelocationsFollow`, `NoSymbolLost`, `StartLast`, `SortTerminates` for sorting, with the type invariant
  `SortTypeOK`: the end index, a `u64`, never passes zero.
* `HeadersMatchFile`, `LinksResolve`, `LocalsBelowInfo` for the writer. The last says that `sh_info` is the number
  behind the last local symbol of the table as written; that no global lies below it is what `locals_first` refutes.
* `DeliversOrRefuses`: the refinement. `ClosedOnce`, `OperandsBeforeArguments`, `SourceKept`, `ExitTells`, `Ends`: whenever
  `make` returns, with whatever result, its streams are closed, and once except where `ClosedOnce` says; an operand is preferred to the
  argument of an `-o` whatever their order; the source survives but for the two ways of naming its file twice; a failing exit status
  means that no file was written, and success without errors that the whole object is there or bytes were lost; the run ends.

Every property of a passing run has a mutant, defined beside the definition it changes, that makes TLC find it
violated.

Fairness. `Assembler`, `Lexer`, `SymbolSort`, `Driver` and `Delivery` assume weak fairness of the whole next-state relation:
myasm is one thread, never blocks, and its next statement is executed sooner or later. `ElfWriter` assumes it of the steps up
to the end of the sort, whose loops are the only ones that could fail to end. Nothing stronger is assumed. Deadlock is not
checked because the program ends.

## Divergences found

With a run that shows them:

* `repeated_section`: `.section .a` twice advances the section counter of both passes (`assemble.c:106`), while
  `addToShdr` refuses the second header and `dSection` ignores the refusal. Labels then carry the index of a header
  that is no section of theirs (in the object, that of `.symtab`).
* `locals_first`: `sortSymbols` moves `end` on although nothing was swapped (`tables.c:412`), so with a global label
  declared before a local one the local stays behind, and `sh_info` counts the global among the locals.
* `success`: after an error in pass 2 `make` returns 1 (`assemble.c:179`); the exit status is success and there is no object.
* `high_runs`: for a run of ones that ends with bit 63 the ones are counted with `__builtin_ctzll(0)`
  (`instructions.c:174`), and the word holds another immediate or a reserved one.

Part of a property that holds, as its stated exceptions:

* A statement in operand position (`.byte 1 ret`) is accepted; pass 1 counts it, pass 2 does not: labels behind it are off
  (the premise `StatementsLead`). A last line without its line end is dropped without an error; no property sees that. A declaration
  whose name is a number is an operand of `.zero`, `.byte` and `.int` (`.zero 5:`), in both passes alike.
* "Shift without parameter" (`instructions.c:455`) is reported for loads and stores of bytes only; `ldr x0, [x1, x2, lsl]` is
  assembled as if the shift were not there (`OptionsComplete`).
* `Misencoded`, in `words`: `adds` and `subs` of 32-bit registers become 64-bit ones; `tbz x0, #n` below 32 tests bit
  *n* + 32; `movz sp` sets a register 0 with the lowest bit of its immediate set, while `movz xzr` is refused; `brk`, `hlt`,
  `tcancel` and `dcps*` have the class of `svc`; `ldrsb`, `ldrsh`, `ldrsw` become other loads, unless they are indexed by a
  register and their destination is 32 bits wide; `adrp` counts bytes for pages, which is right
  only for distances that leave the same modulo 2^21 as their pages; `xzr` as a base or as `Rn` of `add` and the
  like means `sp`; logical immediates of 32-bit registers with bits above 31, and all ones, are taken; an amount without a
  shift behind an index is dropped; a label out of reach or not aligned is taken with its distance cut.
* The eleventh entry of a symbol table of ten, the null symbol counted, lies behind the array until the table grows
  (`StaysInArrays`); an empty label shifts the names of all later symbols (`OffsetsNameEntries`); once the names are longer than the
  first string table together, they lie in memory `xrealloc` has not cleared, and looking them up, measuring the table and
  appending to it go wrong with what was left there (`reached` in `Clean` and `StaysInArrays`); a label of `TOKEN_SIZE` characters or
  more is cut and not found again (`Clean`); the eleventh section with
  relocations uses a record nobody has set (`SafeUntilGrown`).
* A string that begins in the last places of a buffer is never measured against it, and a capacity wraps from 160 to 64
  (`StaysInBuffer`).
* When the output cannot be opened `CONTEXT.out` is closed twice (`ClosedOnce`).
* `main` compares the spelling of a source with that of the output (`myasm.c:41`), and not at all with `a.out`: `myasm -o ./x.s x.s`
  overwrites its source, and so does a source that is `a.out`, or `./a.out`, when no output is named (`SourceKept`).
* A byte of the object that the system does not take is lost without notice: `fputc` and `fclose` are not looked at
  (`assemble.c:192-195`), and the exit status is success with a torn object (`ExitTells`; `Delivery` counts that as torn, not as
  delivered).

## Proofs

All theorems hold for every value of the constants the assumptions admit: every set of sources, texts, tables or command lines,
every `FieldsSize` above 3 and every width. The assumptions are the `ASSUME`s of the models, which TLC evaluates in the runs, and one
hypothesis written in the two theorems that need it, `FewSections`, below.

`AssemblerProofs`:

* `TypeCorrect` (`TypeOK`). Inductive invariant `TypeInv`: `TypeOK`, no name twice in the string table, and no section twice in
  the relocation table. The last two are needed because searches return *the* first match: without them the entry
  found may not be the one that was added.
* `PassesAlwaysAgree` and `LabelsAlwaysWhereDeclared`, for files whose statements lead their lines (`StatementsLead`, a premise of the
  two properties, and of `GlobalsAlwaysAsDirected`). Inductive invariant `Layout`, on top of `TypeInv`. Agreement is not
  inductive: between two lines pass 2 moves by whole lines and pass 1 has moved by tokens. The invariant therefore says
  that the trail of pass 1 obeys `Advance` at every token (`TrailCounts`), that every declaration pass 1 has counted is in
  the symbol table with the place on the trail (`DeclarationsEntered`), that pass 2 is on the trail between lines
  (`HeadOnTrail`), and that while it collects a line, the collected fields are the tokens since the head of the
  line, the trail has not moved behind the head's operands, and pass 2 is where the trail was at the head
  (`LineOnTrail`). `LineCounted` then shows that executing the line moves pass 2 exactly to the trail's next place; it is applied
  once for each action.
* `OffsetsAlwaysFilePositions` is inductive by itself over `TypeInv`: every action that adds to the address without an error
  adds as much to the file. `SectionsAlwaysInOrder` is inductive over `TypeInv`, errors or not.
* `ReferencesAlwaysResolve` and `RelocationsAlwaysGoLast`, for sources with fewer `.section` lines than a section counter has
  values (`FewSections`): when the counter wraps, pass 2 is in section 0 again and `addRelocation` finds the entry of the first
  section, so `RelocationsGoLast` is false then. Inductive invariant `LinkInv`: the counter has room for the sections to come
  (`SectionsAhead`), hence places only move forward, and words (`WordsInOrder`) and entries (`EntriesInOrder`) are in the order of
  their places; no entry has the number of a later section, so `addRelocation` fills the last one or begins one. That a word's
  relocation is there (`WordsResolve`) does not give that there is only one: every item has to belong to a word, at its place
  (`ItemsOfWords`), and no two words have one place.
* `GlobalsAlwaysAsDirected`. Inductive invariant `GlobalsInv`, on top of `Layout`: pass 1 makes local symbols only
  (`LocalAtFirst`), and in pass 2, between lines, the globals are the labels directed by the lines in front of it (`BoundSoFar`).
  While a line is collected, the only `.global` in it is its head (`DirectedByHead`), which is what `LineOnTrail` is needed for.

`ElfWriterProofs`, the sort: `SortStaysInTable`, `RelocationsAlwaysFollow`, `NoSymbolEverLost` and `LocalPrefixKept` come from one invariant, `SortInv`,
which adds that names stay distinct and that every symbol is somewhere. A swap is an involution on numbers
(`SwapMoves`), from which the relocations follow. `StartAlwaysLast` has its own invariant: once placed, a global `_start` is at the
end and the end index is below it.

`ElfWriterProofs`, the file: the sort is a part of `writeElf`, so `SortInv` is carried along (`Carried`), also over the step that gives all
labels the default section; `FileRelocationsFollow` and `FileKeepsSymbols` say it for the file. What was said about indexes and
offsets at the end has to be known at every step on the way: `Base` is the number of headers before the loop of
`dumpRelocations`, computed back from `symtab_ind`; `DumpInv` says that the headers behind it are those of the first `entry`
relocation sections, each beginning where the one before ends (`Follows`) and the first where the code ends (`CodeEnds`);
`ListedInv` that the three tables follow and that all offsets were moved by the same amount; `FileInv` that the pieces written so
far are the headers' (`WrittenTo`). `AddFresh` is where the names matter: `addToShdr` adds nothing for a name it has, so each new
name has to be shown different from all before it (`NameIsFree`). From this come `HeadersAlwaysMatchFile`, `LinksAlwaysResolve`
and, with the lemma `LastNonGlobalIsLast`, `LocalsAlwaysBelowInfo`, for any number of sections, symbols and relocations below
the limit of the `u8`.

`DriverProofs`: `DriverImplementsDelivery`, the refinement: initial states map to initial states and every step to a step of `Delivery`
or a stutter (`InitRefines`, `StepRefines`). It needs to know of the concrete state that streams are open exactly between their
opening and their closing, on every way out of `make`, that the output was not touched before its stream was opened, and that it holds
as many bytes as were copied unless some were lost (`IInv`). `OperandsAlwaysFirst` needs to know what the loop of `main` has chosen after each word (`Consideration`). `StreamsClosedOnce`, `ExitStatusTells`, `SourceIsKept` and `TypesCorrect` rest on the same invariant. They hold for
every set of spellings, whatever files they lead to, and every size of the object.

`TableMemoryProofs`, the relocation table: `TableSafeUntilGrown` and `TableFreesWhatWasSet`, for every size of the table and of its records. The
invariant says that until the section counter wraps, records are in the order of their sections, so the current one is the last
and the array that is enlarged is the one that is full.

`TableMemoryProofs`, the string tables: `StaysAlwaysInArrays`, `SearchAlwaysFindsNames`, `OffsetsAlwaysNameEntries`, for names that are
sequences of bytes other than NUL, the empty one included, every size of the first table and of a token (`NamesAssumption`,
`StartSizeAssumption`), and anything in the memory `xrealloc` adds (`Leftovers`). The invariant, `MemoryInv`, says where the names lie
as long as every one of them began in cleared memory: there are places, one behind another (`Spread`), each with its name
(`Written`), with as many NULs in front as entries (`Counted`) and with a NUL behind a NUL just where a name is empty (`EmptyMarks`),
and behind the last of them the cleared part is zero (`Blank`). All of it has to survive the doubling of the memory, whatever the new
half holds, and is given up once the strings have been overrun. The three ways in which the code looks at the bytes (counting zeros,
comparing, looking for an empty string) are then lemmas about such places. Of memory that was not cleared, what is proved is
`StaysInArrays` alone: that nothing else is needed to leave the table.

`LexerProofs`:

* `StaysAlwaysInBuffer`. Inductive invariant `BufferInv`: every capacity is the first one, its double, its fourfold, or so large
  that only a string of four times the size can have made it so (`Capacities`); what is being read fits with the room `getToken`
  leaves for the rest of the step, or is spoilt already (`Fits`); and in a string an odd number of quotes has been stored
  (`OneQuoteOpen`). `CapacityAssumption`, 4 * 40 < 256, is where the width of the capacity enters.
* `PassesAlwaysReadAlike`. The two passes are at different places with different capacities, so nothing relates their states
  directly. `Turn` says what one step does in terms of text, position and token alone, with no capacity in it, and a *way* is a
  sequence of places each of which follows from the one before by `Turn`. The invariant, `WayInv`, says that pass 1 is at the end of
  a way and pass 2 somewhere on the one pass 1 has gone to the end. Capacities enter only where a dot ends a token or is stored
  and where a token is too long: a pass then takes the step of `Turn`, or leaves its buffer, or ends with an error.
* `TokensAlwaysOfText`, for files that end with a line end. Inductive invariant `TextInv`, on top of the two others: the tokens joined, with the one
  begun, are what `First` keeps of the text up to the place of the pass (`Reads`); the one begun can still become a token (`Part`);
  and the mode `First` is in there is the place in `getToken` (`InMode`), but for the line end behind a comment that ended a token,
  which is read a second time. `TurnReads`: each `Turn` keeps this. `First` and the join are recursive functions, and the library's
  induction theorems cannot be used, since they take an operator as a parameter: that such functions exist and agree where two of
  them are defined is shown from the least place where they would not (`Unrolled`, `Joined`).

`SignaturesProofs`, for every set of lines of up to nine tokens that begin with a mnemonic (`LinesAssumption`):

* `SelectionAlwaysExact`, with `SearchTypesCorrect` (`TypeOK`). Inductive invariant `SearchInv`: the rows in front of the one tried
  are refused (`Underway`), and the slots skipped in it so far are among those anyone has to skip who makes the line out of this row
  (`Walked`). That is what makes a walk without backtracking exact, and it is not true of any table: an
  optional slot must not take what a later slot takes (`WellBuilt`). `AllBuilt` shows this of the 18 rows, `WayGoesOn` that a way
  through a row then goes on as the code does.
* `OneRowAlwaysFits`, `OperandsAlwaysInPlace`, `OpcodesAlwaysAgree`, `OptionsAlwaysComplete` speak of the table and the line alone.
  `FitShape` gives the lines that fit a row when its slots are known; from it come the lines of each row, group by group
  (`ControlFlowLines` to `ComparesLines`), and the rest is shown row by row. Two rows that share a mnemonic (`FamilyHas`) differ in
  a type at one place or in the number of operands (`RowsApart`).

`WordMeaningProofs`, for every set of lines that a row of the table takes, with any register texts, any numbers and all 2^64
immediates in them (`LinesAssumption`):

* `EveryLineMade`. Inductive invariant `LineMade`: a line that was accepted has passed the checks of its encoder, and its word is
  the union of the fields that encoder joins. `MeansItsLine` is not inductive, because a word does not tell which encoder made it.
* `MeansAlwaysItsLine`, class by class (`AddSubImmMeans` to `LogicalImmMeans`). A field of a word holds a number when their bits
  agree (`FieldIs`), because bits determine a number (`BitsDiffer`, shown by halving); a bit is in a word when one of the joined
  fields has it (`InPacked`), and whether two fields overlap is where `Misencoded` comes from. That lines are in `Misencoded` only
  when they have to be is the other half of each lemma. For branches, cutting a distance to its field keeps it exactly when it was
  in reach (`ReachesIs`).
* `PatternsAlwaysAccepted`. The halving stops at a size with which the immediate repeats, and no longer with half of it (`SizeIs`); the ends of its
  runs then repeat with that size too (`EndsRepeat`, `CountRepeats`), so the immediate has one run a period exactly when the element
  is a rotated run (`OneEndIfRun`, `RunIfOneEnd`), which is what the search for a rotation finds (`RotationsFound`). What is read
  back from such an immediate's word is the immediate itself (`RotationHeld`, `EncodingRead`, `PatternRead`) unless the count of its
  ones is undefined: that case `MeansItsLine` excludes (`CountsUndefined`) and `high_runs` shows.

The proof of `MeansItsLine` found two faults of its statement at the ends of the range of `adrp`, where the instance had no
line: the reach was that of the bytes, not of the pages, and a distance that differs from its page by a multiple of 2^21 was
called wrong. Both are corrected, and the instance has such lines now.

`TablesProofs` has the facts about searching and about the table of instructions that the others cite. `LeastNatural` and what
follows from it about the last local symbol rest on the well-founded order of the naturals, in the form that speaks of sets.

Every invariant and every action property the passing runs check is thereby proved. Only model-checked is what says that something
ends (`Terminates`, `SortTerminates`, `ReadsToEnd`, `Ends`), because liveness under fairness is out of the prover's reach.

## Not modelled

* How `strtoull` reads the characters of a number, and the order in which `getTokenType` asks the functions of the parser: they
  keep no state, and a property would restate their comparisons. Tokens arrive classified.
* `.ascii` without a string, sections named like the tables of the writer, 256 headers or more: excluded by assumptions, since the
  code runs on into memory or loops where no outcome can be stated.
* `align`, the fields of headers that are constants, and the wording of messages.
* Build files and the comparison test against GNU as: no behaviour of the program. `copyToken` is never called.
