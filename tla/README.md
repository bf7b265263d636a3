# TLA+ models of package regexp, its copy in package testing, package bytes, the json parser and the gob decoder

These modules model six parts of this Go tree:

- the regular-expression engine of `src/pkg/regexp/regexp.go`: compiler, NFA simulator, match arena, and the loops and goroutine built on the simulator;
- the reduced copy of that engine in `src/pkg/testing/regexp.go`;
- `bytes.Buffer` (`src/pkg/bytes/buffer.go`);
- the functions of `src/pkg/bytes/bytes.go`;
- the JSON lexer and parser of `src/pkg/json/parse.go`, with `Quote` and `Unquote`;
- `gob.Decoder` reading a message stream (`src/pkg/gob/decoder.go`, `decode.go`).

TLC checks every module over bounded inputs.

## The system and its parts

| Part | Code | Role |
|---|---|---|
| Instruction graph | regexp.go 51-251 | Nodes with `next` (and `left` for ALT), numbered by `add` |
| Parser | regexp.go 253-562 | Recursive descent. It builds the graph and records `p.error` |
| Compile pipeline | regexp.go 564-668 | Appends END, removes NOPs, extracts the literal prefix |
| Match arena | regexp.go 687-738 | Reference-counted capture vectors, allocated in blocks of 10 |
| Simulator | regexp.go 748-910 | `addState`, `doExecute`: two state lists, leftmost-longest choice, prefix skip |
| Scanning loops | regexp.go 1011-1242 | `allMatches`, `ReplaceAllStringFunc` and the `AllMatches*Iter` goroutine over `doExecute` |
| testing/regexp | testing/regexp.go | Same syntax, string errors, no prefix, no arena, a different `addState` |
| bytes.Buffer | bytes/buffer.go | A slice with a read offset, grown by `resize` and by `ReadFrom` |
| bytes functions | bytes/bytes.go | Search, split, join, map, trim and append over byte slices, decoding UTF-8 with package utf8 |
| json parser | json/parse.go | `Unquote`/`Quote`, a lexer over the text, a recursive-descent `parse` calling a Builder |
| gob decoder | gob/decoder.go, decode.go | `Decode` reads a count-prefixed message from an `io.Reader`; type messages define wireTypes, value messages are decoded by an engine compiled from the wireType and the local struct |

The parts interact like this:

- `Compile` builds the `Regexp` that `doExecute` reads.
- `doExecute` calls the arena on every state it adds or drops.
- The scanning loops call `doExecute` from an advancing offset.
- The iterator's goroutine hands matches to its caller over a channel.
- `json.Quote` writes through a `bytes.Buffer`; `parse` calls `Unquote` on every string token and `strconv` on every number token.
- `Decoder.Decode` loops over messages: a type message goes to `recvType`, which stores the wireType; a value message compiles a decoder engine (`compileDec`) from the stored wireType and runs `decodeStruct`.

## Modules

| Module | Models | State and actions |
|---|---|---|
| RegexpInstr | instruction kinds, `_CharClass.matches`, UTF-8 width | operators only |
| RegexpCompile | the parser, `eliminateNops`, `setPrefix` | mutually RECURSIVE operators in the order of the Go calls; `Compile(expr)` |
| CompileCall | one `Compile(str)` call | `pattern`, `re`, `called` |
| RegexpMatch | abstract: what `doExecute` promises | one step answers the leftmost-longest match of the set simulation |
| RegexpExec | `doExecute` step by step | `pc` is the point in the code; `cur`/`nxt` are the two lists; `arena` is `[head, count, ref, link, m]`; see the table below |
| TestingCompile | testing's `CompileRegexp` | the parser with testing's differences (see its header) |
| TestingExec | testing's `doExecute` | match slices live in a heap of ids; epsilon steps append to the list being walked |
| CompileAgree | both compilers on one pattern, in either order | compares error and language |
| ExecAgree | both `doExecute`s on one pattern and text | regexp's call runs first, testing's `ExecuteString` once it has returned |
| Scan, AllMatches | `allMatches` and `AllMatchesString` | `pos`, `prevMatchEnd`, `i`, `result`; `doExecute` is RegexpMatch's answer |
| ReplaceAll | `ReplaceAllStringFunc` | `lastMatchEnd`, `searchPos`, the output pieces |
| ScanAgree | AllMatches and ReplaceAll interleaved on one string | |
| AllMatchesIter | the goroutine of `AllMatchesStringIter` and its caller | `chan`, `closed`, `received`, `cpc`; AllMatches' result is `received \o chan` |
| ByteQueue | abstract: what a Buffer promises | a queue `q` of numbered bytes; `Put`, `Get`, `Take`, `Keep` |
| Buffer | `bytes.Buffer` | `b = [mem, base, len, nil, off]`; one action per method; each `ReadFrom` iteration is one step |
| Utf8, Unicode | the functions of packages utf8 and unicode that bytes.go and parse.go call | operators only; these packages are not in the tree and are written from their Go behaviour (see the headers) |
| Bytes | bytes.go | each function an operator, each loop a RECURSIVE operator over the loop's variables; a caller with `call`, `out` and one action per function |
| Strconv | the number syntax of `Atoi64`, `Atoui64`, `Atof64` | operators only; strconv is not in the tree |
| Json | parse.go | `_UnHex`, `_ToHex`, `Unquote`, `Quote`, the lexer (`skipwhite`, `skiptoken`, `skipstring`, `Next` as `lexNext`) and `parse` with its array and map loops; the Builder is a tree builder; the callers of Bytes with `Parse`, `Quote`, `Unquote` added |
| GoInt | Go's 32-bit `int` | `AddInt` (wrapping sum) and `NegInt`, computed within TLC's own 32-bit integers |
| Gob | decoder.go, decode.go | `rd` (the Reader's bytes left), `rend` (what Read returns after them), `wireType` (received types), `results` (each Decode's err and value), `feed`; actions `NewDecoder`, `Decode` (the whole call, which holds `dec.mutex`), `DecodeNonPointer`. uint64s are big-endian byte sequences, so 64-bit values never become TLC integers; a wireType is one byte naming a struct of `WireStructs`. The basic type ids 1..6 (`BasicIds`, from gob's type.go, which is not in this tree) are in `builtinIdToType` but are no structs; user ids start at `FirstUserId` (65 in MCGob), past tWireType and its struct types, which no stream of the model defines. A reference sender (`Encode`, `Expected`) gives the results a decoder should return |
| MCLibrary | a caller of the library | from the zero Buffer, no pattern and no Decoder, takes one of: a Bytes or Json call, a Buffer session, a pattern compiled by both compilers (CompileAgree), or a Decoder's calls. Once one has started the others are disabled, so the four state spaces add up |
| MC* | instances for TLC | patterns in MCPatterns are compiled by the model's own `Compile` |

RegexpExec's actions map to the code as follows:

| Action | Code |
|---|---|
| `NoPrefix` / `SkipPrefix` / `PrefixAbsent` | the prefix check (811-824) |
| `Prime` | 827-838 |
| `Swap` | swap, clear, break, decode (839-859) |
| `Advance` / `Pass` / `Accept` | the dispatch (860-895) |
| `Finish` | return (902-909) |

`addState` and the arena operations are operators, each applied whole inside the action that calls it.

In Bytes and Json, a `[]byte` or string is a sequence of numbers 0..255 and `s[i:j]` is `Slice(s, i, j)` with Go's indices. A call that indexes out of range returns `Panic` (Bytes) or leaves the lexer of kind `PanicKind`, which no case of `parse` accepts, so `Parse` reports `panic`. Unquote's `b := make([]byte, len(s))` is kept as a bound: a write past `len(s)` bytes panics.

`AddLen` models `Add`/`AddByte` on a slice given only by its `len` and `cap`, so that slices of a billion bytes fit in a state; the sum and `resize` use GoInt's wrapping `AddInt`. In Gob a panic is a result with `err = "panic"`; `structLoop` and `decodeLoop` are RECURSIVE operators over the loops' variables, and each `Decode` call is one step of the whole loop, as the code holds `dec.mutex` throughout.

In Buffer, bytes written get the numbers 1, 2, …, counted by `nextId`, so a lost, duplicated or reordered byte is visible. `BufferRefinesQueue` instantiates ByteQueue with `q <- Contents(b)` (that is, `b.buf[b.off:]`) and `wrote <- nextId`.

## Runs

| Run | Expect | What it shows |
|---|---|---|
| exec_agree | pass | All patterns of MCPatterns, with and without a literal prefix, on every text of ≤3 runes over {a, b, \n, 日} (155k states). regexp's arena stays sound (`ArenaSound`); `final` is always a real match (`CandidateIsMatch`); groups nest (`CapturesNested`); without a prefix the answer is leftmost-longest (`UnprefixedRefinesMatch`). testing's run keeps its lists bounded and refines RegexpMatch too. Both calls return (`BothReturn`). |
| exec_prefix_bug | violation | With a prefix, `doExecute` does not refine RegexpMatch: `a[b日]` on `aab` returns nil. |
| compile_first_error | violation | For `(*`, Compile returns ErrUnmatchedLpar, not the first error met. |
| compile_agree_classes | violation | Classes of more than 10 ranges: testing's `addRange` loses the first 10. |
| testing_exec_loop | violation | testing's `doExecute` never returns on `(a*)*` and `(b?)+`. |
| scan | pass | `allMatches`, `ReplaceAllStringFunc` and then `AllMatchesStringIter` on the same string, for n ∈ {-1, 0, 1, 2}. No empty match abuts a previous match. No match is skipped. Replace replaces exactly the matches and copies everything else. Both loops advance and end. The iterator's goroutine runs allMatches on variables of its own; however its blocking sends, the caller's receives and `close` interleave over a channel of capacity 2 (so that it fills), the caller receives the first call's matches in order, and all of them once its range ends (`IterDeliversAllMatches`). A caller that keeps ranging reaches the end (`RangeEnds`). |
| iter_abandoned | violation | With the code's capacity of 10 and a text with more matches than that (`b` and ten `a`s), a caller that stops ranging leaves the goroutine blocked in a send forever. |
| library | pass | 2.75M states in about 170 s. (1) Every bytes function on every input of MCBytes agrees with a reference definition written from its doc comment: Split, Index, Compare, Fields, Map, Join/Add, and none indexes out of range. (2) `Parse`, whenever it returns, succeeds exactly on the texts the JSON grammar derives from its tokens and builds the grammar's value (`ParseMatchesGrammar`, over 579 accepted texts of ≤5 bytes and the objects with one or two members, bad members, a trailing comma, nesting, of `ObjectTexts`). `Quote` writes one string token that Unquote takes back on valid BMP text. `Unquote` decodes every escape of the lexicon. (3) Buffer sessions implement ByteQueue, provided ReadFrom is not called on a partly read buffer. (4) Every pattern of ≤4 symbols compiles to a well-formed graph with a mandatory prefix, and the two compilers agree. (5) A Decoder on every well-formed stream, whole or cut after any byte, returns the values sent, in order, and the errors of the bad messages (`DecodesSentValues`), then stops at the Reader's error. |
| buffer_readfrom | violation | `ReadFrom` after a partial `Read` loses unread bytes. |
| bytes_trimspace | violation | `TrimSpace("a \x80")` returns `"a"`. |
| library_panics | violation | `NoCallPanics`: some call panics instead of returning. TLC's trace stops at the first panicking call it reaches; evaluated on the same model, each of these panics: `Parse` on `"\` and on `"\x80\x80"`, `Add` on a slice of 1431655766 bytes at full capacity, and `Decode` on the bad gob messages of `MCBadFeeds`. |
| json_quote_roundtrip | violation | `Unquote(Quote(s)) ≠ s` for U+1F600 and for an invalid byte. |

Every property of a passing run has a mutant in PROJECT.json that TLC catches, for example:

- the reference count of `noMatch`;
- the tie-break in `Accept`;
- testing's ALT forking a shared slice;
- the count in `deliver`;
- a non-blocking send;
- `resize` copying from index 0 instead of `off`;
- `Compare` treating a longer string as equal;
- `mapGrow` without its `UTFMax` slack;
- array elements, and object members, without a comma;
- Quote writing a backslash unescaped;
- Unquote refusing `\'`;
- gob's `decodeStruct` not advancing the field number;
- gob's message loop not negating a type id.

## Findings

1. **Prefix skip (regexp.go:831, code bug).** Later primings start the whole machine, yet `m[0]` is still backed up by `len(prefix)`, and start positions before the skip target are never tried.
2. **Arena leak (regexp.go:790, hazard only).** An ALT copy that `addState` drops is never returned to the free list. It stays allocated, so no property of the results notices it; `ArenaSound` checks the counts that do matter.
3. **First error (regexp.go:424).** The `(` case of `term` overwrites an inner error.
4. **testing's addRange (testing/regexp.go:173).** The copy loop runs over the new slice, so a class of more than 10 ranges loses its first 10.
5. **testing's addState (testing/regexp.go:647).** An empty-matching loop appends the same state forever.
6. **Iterator leak (regexp.go:1238).** An abandoned range leaves the goroutine blocked forever.
7. **Buffer.ReadFrom (buffer.go:147, code bug).** `b.buf = b.buf[b.off : len(b.buf)+m]` keeps `b.off`, so when no reallocation happened after a partial read, unread bytes are skipped. TLC's trace writes 3 bytes, reads 1, and calls ReadFrom on a reader that returns 0 bytes: only byte 3 is left.

8. **TrimSpace (bytes.go:328, code bug).** The backward loop backs up from an invalid last byte to the previous rune start and decodes from there. When that is a space, `DecodeRune` returns width 1, and `end -= wid` drops the space and the invalid byte together.
9. **skipstring (parse.go:218, code bug).** A backslash as the text's last byte makes `skipstring` return `len(p)+1`, and `Next`'s `s[i:j]` panics. `Parse("\"\\")` panics instead of returning ok false.
10. **Unquote (parse.go:124, code bug).** `b` holds `len(s)` bytes, but each invalid input byte is written as the 3 bytes of RuneError. Two of them overrun `b`, and `Parse` panics on them.
11. **Quote (parse.go:178, code bug).** `_ToHex` keeps 16 bits, so a rune past U+FFFF comes back wrong. Invalid UTF-8 comes back as U+FFFD. Quote's doc says `Unquote(Quote(s)) = s, true`.
12. **bytes resize (bytes.go:344, code bug).** `resize(n)` returns `n + n/2` in a 32-bit int. Past 1431655765 bytes it wraps negative (`resize(1431655767) = -2147483646`), so `Add` or `AddByte` on a full slice of that size calls `make` with a negative length and panics, where a larger slice could still be allocated.
13. **gob field number (decode.go:382, code bug).** `fieldnum := state.fieldnum + delta` is checked only with `fieldnum >= len(engine.instr)`. A delta of 0x7fffffff after field 1 wraps the sum negative, and `engine.instr[fieldnum]` panics with an index out of range instead of returning an error.
14. **gob recvType (decoder.go:52, code bug).** `recvType` stores `dec.wireType[id] = wire` even when decoding the wireType failed, and `Decode` accepts a definition of a basic type id. A later value of such an id reaches `compileDec`, which dereferences a nil `strct` and panics.

Not a finding: on `(.*).*` and `"\n"` the two engines return different submatches for the same whole match. Neither package fixes which submatch is chosen.

Seen but not checked: `Unquote` accepts an unescaped `"` inside the quotes (`"a"b"`), which is not a valid JSON string. `parse` never hands it such a token, because `skipstring` stops at the first `"`.

## Bounds and why they are enough

- **Texts:** up to 3 runes over {a, b, \n, 日}. These reach matches at every offset, at a newline, at end of input and after a multi-byte rune.
- **Programs:** they cover every instruction kind, epsilon cycles, nested and empty groups, and literal prefixes.
- **Patterns:** patterns of 4 symbols reach every parser path.
- **`BlockN = 10`:** the code's block size.
- **`ChanCap`:** the code's 10. The iterator's texts (all texts of ≤2 runes, plus `b` followed by 10 `a`s) give enough matches to fill the channel.
- **Buffer:** `Bootstrap = 2` and `MinRead = 3` stand for 64 and 512, scaled to up to 5 bytes. What matters is the comparisons between them, not their size. At these values the runs reach:
  - the bootstrap array, then a `resize`;
  - `ReadFrom` reusing the front of the array and `ReadFrom` reallocating;
  - WriteRune of 1 to 4 bytes.
- **bytes functions:** texts of ≤4 bytes and separators of ≤3 over {space, a, 0x80, 0xA0, 0xC2}. C2 A0 is a two-byte space, C2 80 is a two-byte non-space, and lone 0x80, 0xA0 or C2 are invalid. Together they reach every branch of the ASCII/UTF-8 splits, RuneError's 3-byte re-encoding (which is what `mapGrow` must make room for), overlapping and empty separators, and n below, at and above the number of pieces.
- **Parse:** every text of ≤5 bytes over `[]{},:"1`, every text of ≤4 over those plus space, `-`, `\`, 0x80 and `t`, the three literal words, and the objects of `ObjectTexts` (`{"":1}`, `{"":1,"":[]}`, `{"":1 "":1}`, `{"":1,}`, `{1:1}`, `{"":{"":1}}`, …), since an object with a member takes 6 bytes. These reach nested arrays and maps, members accepted and refused, trailing and missing separators, unterminated strings, escapes at the end, invalid bytes, and bad numbers and words. Numbers have at most 5 bytes, so strconv's range errors never arise.
- **AddLen:** `len` and `cap` in {0, 15, 40, 10⁹} in the pass run, so `resize` is taken below 16, above 16 and with a large slice that does not wrap; the violation run gives slices of 1431655766 bytes and of `MaxInt` at full capacity, the smallest that wrap.
- **Gob:** two struct fields; sender types covering a matching struct, a skipped string field, a field of the wrong type and no field in common; values of 1 to 3 encoded bytes, negative ones and strings. Every session of ≤2 messages is cut after every byte (reaching a short count, a short body and a truncated value), and sessions of 3 messages are fed whole; the Reader then returns EOF or an error. `MaxDecodes = 5` is more than three messages plus the call that meets the end.
- **Quote and Unquote:** up to two runes among ASCII, `"`, `\`, control bytes, and runes of 2, 3 and 4 bytes. Unquote gets up to two lexicon entries or bad escapes between quotes.

## Fairness

Each Go call modelled runs to completion once it is called, and the Go scheduler runs every runnable goroutine. Each spec therefore assumes weak fairness of the steps of a call that has not returned.

- **RegexpExec, TestingExec, ExecAgree:** fairness is written as `<>[](pc # "returned") => []<><<Next>>_vars`, with ENABLED replaced by the pc condition. TLC's ENABLED evaluates `addState` without caching, which is exponential. The deadlock check shows that the two conditions agree.
- **AllMatchesIter:** weak fairness for the goroutine except while it is blocked on a full channel, and for the caller's receive.
- **Buffer, Bytes, Json, Gob (MCLibrary):** no liveness property is stated, because a Buffer's caller may stop at any time. Each bytes and json function is one step: an operator evaluated whole, so it either returns or panics within the step.

## Not modelled

- `ReadRune`: its UTF-8 decode. `Bytes`, `String` and `Len` are observers, and they are operators of Buffer.
- `IndexByte`'s assembly body (asm_$GOARCH.s, not in this tree): the model calls `indexBytePortable`, which the file gives as its portable equivalent. Every other function of bytes.go is modelled.
- `Unicode`'s case tables beyond U+00BF: the texts decode only to runes below U+00C0 and to RuneError.
- json/struct.go and the generic Builder: they fill Go values through package reflect, which TLC cannot model. `parse` is checked with a tree builder in its place.
- gob: the ops of every kind but int and ignored int and string fields (floats, arrays, slices, maps, nested structs, pointers), and the reflection that allocates through pointers. The wireType is one byte naming a struct, not the gob-encoded wireType itself. The decoderCache only memoizes `compileDec`, so it is evaluated afresh. dump.go is a main calling `Debug`, which is not in this tree. The hazard at decode.go:96 has no property: `decodeUint` ignores a short read inside a multi-byte uint and uses the bytes it got, but only a corrupt message body reaches it, and the code defines no result a truncated body should decode to.
- encoding/binary: built on reflect, and its 64-bit arithmetic is beyond TLC's 32-bit integers.
- crc64, http, net, math, os/syscall, cgo and the language tests: tests of code not in this tree, floating point, generated tables, or tools that run gcc.
- The string contents of matches and of what `repl` returns: only spans are kept.
- `QuoteMeta`, `MatchString` and the other thin wrappers of the public API, and the `[]byte` twins of the scanning functions (`AllMatches`, `ReplaceAllFunc`, `AllMatchesIter`), which repeat the string versions line for line.
