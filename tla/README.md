# A formal model of ujson

ujson is a small JSON-like reader and writer in C, with ports to Go and Perl and an Objective-C wrapper of the C
library. This directory holds TLA+ modules that model its logic, TLC configurations that check them, and proofs that
TLAPS checks. `PROJECT.json` lists the runs, the theorems, the findings, the hazards, and, for every definition, the
lines of the source it models.

    tlc -config MCUjParse.cfg MCUjParse        check one configuration
    tlapm UjParseProofs.tla                    check the proofs of one module

## 1. Inventory

| Part | State it keeps | Operations | Talks to |
|---|---|---|---|
| C parser, `c/ujson.c` `uj_parse` | the label, `pos`, about ten locals, `arrayParentStack[10]`, `cur`, the nodes | 25 labels, 19 begin states | node constructors, the string tree, the `handlers` table |
| C nodes, `c/ujson.c`, `ujson.h` | `uj_node`s linked by `base.parent`, head and tail; `refCnt` | new, add, get, store, remove, delete | string tree |
| String tree, `c/string-tree.c` | a red-black tree of hashes, a list of `snode`s under each | store, get, delete, list keys, destroy | red-black tree |
| Red-black tree, `c/red_black_tree.c` | nodes, two sentinels | insert, delete, query, walk, destroy | callbacks for keys and infos |
| Key cache, `c/string-tree.c` | one global tree of strings | store, delete | Objective-C wrappers |
| String decoder, `uj_str__new_from_json` | `i`, `io`, a block as long as the text | escapes to bytes | called by the parser |
| Serialiser, `uj_node__json`, `jsonx`, `str` | an sds string, handed from call to call | write a tree as text | sds, list of keys |
| Dumps, file helpers | none | print a tree, read a file | stdio |
| sds, `c/sds.c`, vendored | a block with a header of one of five widths | make, grow, shrink, cut, append, format, quote | allocator |
| Go parser, `go/ujsonin.go` `ParseFull` | the label, `pos`, a dozen locals, `cur`, `root` | 24 labels, callback per root, recovered panic | Go nodes |
| Go nodes, same file | maps and slices with parents | Add, Get, Del, Overlay, decoder, dumps | gojq |
| gojq, `go/gojq` | none | a command line over the Go package | Go nodes |
| Objective-C wrappers, `objc/ujsonObjc.m` | a pointer to a hash whose count they raise | init, get, set, remove, release, enumerate | C nodes, key cache |
| Perl parser, `perl/mod/Ujson.pm` | the same goto machine a third time | labels | none |
| Tests, examples, builds | scaffolding | | |

What is hard. Nothing in this code runs concurrently and nothing is persisted. What is hard is, first, the goto
machines: any label can be followed by any input, locals are set at one label and used many labels later, several
labels look at a character and give it back, and the end of the buffer can come anywhere. Second, one field with two
meanings: `base.parent` is the way up while a hash is open and the next sibling once it is in an array, with a separate
stack for the way up from arrays. Third, pointers under rebalancing: the deletion of the red-black tree repairs the
colours while the node to be freed is still linked, with a shared sentinel whose parent it borrows. Fourth, lifetime:
lists freed as a whole, an eight-bit count that starts at zero for one reference, wrappers released in any order, and
text that belongs to somebody else. Fifth, in Go, errors that travel by a recovered panic, and several roots in one
call. Sixth, blocks of bytes whose size is settled before what goes into them is known: the decoder writes into a block
as long as its text, terminator included, and a string changes the width of its header, and its place, as it grows.

What makes each part correct:

- parsers: they end on every input; every slice lies in the buffer; no local is used before it is set; a closer
  returns to the container that really holds the one closed; a well-formed document gives exactly the tree it stands
  for; in Go a cut document is never reported as whole, and the callback gets every root once, in order and complete;
- Go nodes: laid over one another in any order of their keys, hashes come to the merge of their values, although what is
  added is shared and not copied; a deletion takes away one entry and leaves other keys alone;
- red-black tree: links, order and colours, also in the middle of the fix-up loops; it is a bag of its entries; a query
  finds what is there; every operation ends and every node is freed;
- string tree: a map whose first value wins; memory is exact; the list of keys is complete and inside its arrays;
- lifetime: what a wrapper leads to is not freed, what nothing holds is;
- decoder: it reads inside the text and writes inside its block, and each escape comes to its bytes wherever it stands;
- strings: whatever the sequence of calls, the header tells the truth about the block, nothing is written outside of it,
  the terminator is in place, and the caller sees a plain sequence of bytes;
- serialiser: what is written is parsed again into the same tree; the caller always holds the block the string is in.

The hazards in `PROJECT.json` say, line by line, where these could go wrong and which property watches the line.

## 2. Modules

| Module | Models |
|---|---|
| `UjNode` | nodes as a heap of records; constructors, `uj_arr__add`, `uj_hash__store`, the walk of an array |
| `UjParse` | `uj_parse`: one action per label, all begin states |
| `UjDocument` | abstract: a document being built, with a path of open containers and no pointers; `UjParse` implements it |
| `UjParseProofs` | the theorems about `UjParse` |
| `RBTree` | the red-black tree: one action per call, one step per iteration of its loops |
| `OrderedBag` | abstract: the bag of entries an ordered tree holds; `RBTree` implements it |
| `RBShapes` | lemmas: what linking, rotating, painting and splicing do to one tree |
| `RBTreeProofs` | the theorems about `RBTree` |
| `StringTree` | the lists of keys under the hashes, on a tree of which only the bag is used |
| `KeyMap` | abstract: a map whose first value wins; `StringTree` implements it |
| `StringTreeProofs` | the theorems about `StringTree` |
| `GoParse` | `ParseFull`: one action per label, the callback, remainder, errors and recovered panic |
| `GoNodes` | Get, Del and Overlay on the trees `GoParse` has made, an entry of Overlay a step |
| `PathTree` | abstract: what is at which place of a tree, without nodes, merged and deleted from; `GoNodes` implements it |
| `GoParseProofs` | the theorems about `GoParse` and `GoNodes` |
| `NodeLife` | the delete functions and the reference count, under the Objective-C wrappers |
| `NodeLifeProofs` | the theorems about `NodeLife` |
| `Walks` | lemmas: recursive functions along links exist, and what they collect |
| `UjDecode` | the string decoder, one step per iteration, for `char` signed and not |
| `Sds` | the string library: headers, blocks, the calls that make, grow, shrink, cut and append |
| `UjTextProofs` | the theorems about `UjDecode` and `Sds` |
| `ByteString` | abstract: a sequence of bytes and what each call promises to do to it; `Sds` implements it |
| `SdsArgs` | `sdssplitargs`, which takes apart what `sdscatrepr` writes |
| `UjStr` | `uj_node__str` of a hash, call by call on `Sds`, and whether its pointer is the string's |
| `UjWrite` | what `uj_node__json` and `uj_node__jsonx` write for a document |
| `Documents` | a grammar of documents and the styles they are written in, for both parsers |
| `MCUjParse`, `MCRBTree`, `MCStringTree`, `MCGoParse`, `MCNodeLife`, `MCUjText`, `MCUjStr` | instances for TLC |

How they fit: `RBTree` implements `OrderedBag`, which is all that `StringTree` uses of it; `StringTree` implements
`KeyMap`, and `UjNode` keeps the entries of a hash in that order and `NodeLife` reads the first of a key. `UjParse`
builds on `UjNode`. `NodeLife` starts from documents that `UjParse` builds. `MCUjParse` gives the parser what `UjWrite`
writes. `GoNodes` goes on where `GoParse` has returned, in the same heap: the roots of a stream are what its calls are
made on, and `NodesSpec` runs the two one after the other. `MCUjText` composes `UjDecode`, `Sds` and `SdsArgs`: a
literal is decoded, the bytes are quoted by `sdscatrepr`, and that is decoded again. `UjStr` composes the serialiser
with `Sds`.

### Correspondence with the code

`UjParse`. The variables have the names of the locals of `uj_parse`; `pc` is the label. A step runs from a label to the
next `goto` or fall-through, reads at most one character and looks at most one ahead. `Safe` is the end-of-buffer test
of `SAFE` and `SAFEGET` at every label. `pos` begins at 1: the code skips the first byte. A local without initialiser
starts as `Uninit` (-1). `Done` is the return of the root, `Exit` is `exit(1)` on a word not in the table, `Undefined`
is an access of `arrayParentStack` outside its bounds. Characters that the code only tests for membership in a range
have a few representatives each. The texts of nodes are slices of the buffer, never copied. `*err` and `endstate`
are left out: the code never assigns the first, and the second is never read.

`RBTree`. `t` maps every address to its links and colour; `pc` names the loop control is in; `x`, `y`, `z`, `root`
and `q` are the locals of the source. The loops of insertion, deletion and query take one step per iteration, so
that invariants are also checked half-way; walks and destruction, which change nothing between their steps that
anyone sees, take one. `root` is the copy that `RBDeleteFixUp` reads once. The sentinels are ordinary addresses that
the code may write to.

`StringTree`. `snodes` and `live` are the heap of list nodes, `rb` is the set of tree nodes, each a hash and the first
snode. A query may return any tree node with the hash, as `OrderedBag` promises no more. `keyarr` is the array of
`getkeys`, filled one key a step, with its doubling. Keys with equal hashes are instances in which two keys are mapped
to one hash.

`GoParse`. As `UjParse`, with `data[pos:]` slices copied into `str` and `remainder`. `OverEnd` is the code at that
label: it builds an error, and `GetPosInfo` panics when `pos` is past the end; `Recovered` is what the deferred
function makes of it. `chunks` is the history of calls of `OnRootChunk`.

`GoNodes`. A call is made on the roots that `OnRootChunk` was given, in any order; they stand for the files gojq reads
and lays over one another. `frames` are the running calls of Overlay, one in the other: `range` gives the keys of a map
in any order, so a step takes any entry of the innermost call that is left. Values are added as they are, so that base
and top share nodes afterwards, and a later call may change both; the run reaches this. `fault` is the panic of Del on
a nil node. `Child` is Get of one node or GetAt, `Find` the walk along a path. `before` is a ghost, the heap when Overlay
was called. The value of a root is what is at each of the `Probes` below it, the places at which it is looked at; they
are a constant, closed under prefixes, with the paths Del is told of among them. The keys inside the documents have no
dots: `Get` in Overlay would take those apart.

`NodeLife`. A document is a sequence of nodes that is a tree (`IsDocument`: each node but the root is stored in one
place, behind which it comes), and may have a key twice. `nodes` are the nodes in the order of allocation, `gone` those
a delete function has dealt with, `wrappers` the number of `UJHash` objects per hash, `texts` the UTF8Strings that are
still there. A release (`Dealloc`) runs the whole recursion of `uj_hash__delete`, `uj_arr__delete` and `uj_str__delete`.
`Undefined` follows the deletion of an empty hash, for which `getkeys` reads the sentinel, and the use of text that has
vanished. `abandoned` is a ghost: the nodes with a reference that nothing gives back (`init` and `initWithDict` count
two, `removeObjectForKey` leaves the node, a key set twice hides the second value, and so does a key that a document has
twice, which is `Behind`). `Total` is the sum that `MaxWrappers` bounds. The memory of the characters themselves is not
tracked.

`UjDecode`. `str`, `len`, `i`, `io` and `alloc` are those of the code; `Letter`, `HexEscape` and `Escape` are the three
ways through the body of the loop, `Finish` is the terminator. `let` is a plain `char`, so `signed` is chosen once for
the build: a number from 0080 to 00ff goes out as one byte where it is signed, and twice over where it is not, as no
`continue` follows its two bytes. The digits of an escape are read where they should be, also behind the text. An
access outside the buffer or the block is `Undefined`.

`Sds`. `s.type`, `s.len` and `s.alloc` are the header, cut to its width; `s.buf` is the block behind it, where what lies
behind the length counts as `Junk`, so that a length raised over bytes nobody wrote shows; `s.room` is what was really
allocated and `s.over` remembers a write outside of it. Only `s.room` and `s.over` are not in the code. A call is one
step, built from the operators of the same names in the order of the code; `sdscatfmt` and `sdscatrepr` are loops that
call the others, and take a step per item and per byte.

`UjStr`. A label per call of the writer. `current` says whether `str` still points to the block. The call for the
separator drops the result of `sdscat`: where the header changes its type the string has certainly moved, where only
the room changes `realloc` may or may not have moved it.

`UjWrite`. The recursion of the writers, as operators on documents; indentation and separators as the code puts them.
The text of a string in a document, escapes in it included, is taken as what `sdscatrepr` made of the bytes: which bytes
it writes how, and what reads them back, is `MCUjText`'s subject.

## 3. Runs

| Run | Instance and why it is enough | Shows |
|---|---|---|
| `c_parser` | every string of up to three of 18 symbols after eleven openings that lead into each kind of scan, array stack of two; documents of the grammar nested three deep in 24 styles, and as the library itself writes them, json and jsonx, a level deeper. One of the keys has two letters, so that the length of a key shows | slices, keys and links are right on any input; `UjDocument` is implemented; documents give their trees, whole keys and texts compared; what is written is read back; every step advances; the parse ends |
| `readme` | documents of syntax the readme lists, each with a bad value at the end: a bracket, an unknown word, an array eleven deep (the stack has its ten places here) | violation, several flaws in one: a `/* */` comment before a value loses it, a fraction swallows the closer behind it, a string that begins with an escape is not decoded, and the parser does not return. Each document breaks both halves of `ReadmeHolds` |
| `rb_tree` | all histories of five nodes with keys in pairs, and trees of up to ten nodes grown from both ends inwards or outwards, then deleted in any order. Five nodes do not reach a rotation after the fix-up has climbed; ten, grown like this, reach every case of both loops, climbing and not, on both sides | shape, colours, order at every iteration; bag; queries; walks; destruction; every operation ends |
| `strings` | three keys, two values, four snodes, array of capacity one so that it doubles twice | memory, list of keys, map |
| `strings_chains` | two keys with one hash; a key stored twice may be deleted | violation: the node a query finds does not lead to its keys |
| `text` | literals of up to three of twelve tokens, in both builds, decoded, quoted, decoded again; calls on strings of up to five bytes in any order, with headers that hold 1, 3, 7, 15 and 511 so that strings pass through all five, loops up to 60 bytes | reads and writes stay in their blocks; the nine tokens that are read as JSON means them come to their bytes, also next to the three that are not; headers, blocks and terminators are right; `ByteString` is implemented; bytes that `text_kept` is not about are read back when quoted |
| `text_kept` | one literal with an escaped backslash, `\t`, `\u00e9` and the number of the form feed, decoded, quoted, decoded again; no other calls | violation, in both builds: the bytes are not those JSON means nor the text as it stands, and neither the decoder nor `sdssplitargs` reads back what was quoted |
| `str_stale` | hashes of one or two entries, values that end shortly before a change of header or room | violation: after a separator `str` points to the block that was freed |
| `go_parser` | strings of up to three of 17 symbols after six openings, and of two after five more; documents with a remainder, all prefixes of documents, streams of up to two documents with a callback; streams of three hashes with every kind of entry over every other, hashes two deep, then two calls: Overlay of any root on any other, Del of a key or of a path of two or three. Two calls are what it takes to meet nodes that are shared. `MCProbes` has every place at which the layered hashes have anything | trees, remainders, chunks, errors, end; `PathTree` is implemented |
| `go_lost` | all prefixes of documents | violation: data cut after a quote is neither tree nor error |
| `node_life` | documents with hashes in hashes and in arrays of arrays, six nodes, three wrappers, a count of five values so that it is used up to its limit | nothing in use is freed, counts exact, hashes released |
| `text_vanishes` | the same | violation: keys and strings in memory that is gone |

Bounds. `ArrayStackMax` is 2 instead of 10: the code compares it with nothing, so only reaching its end matters.
`Width` is 5 instead of 256; the assumption `MaxWrappers <= Width - 2` is the limit under which the source's count
cannot wrap around, and the run uses it to the end. `Repeatable` and `Deletable` in `StringTree` say which keys may
be stored again and deleted: in the passing run no key is in both, as that case is a finding of `strings_chains`;
`RemoveObject` in `NodeLife` leaves it out for the same reason. A walk of an empty tree is left out of `WalksReachAll`
and `GetKeys`, and documents with an empty hash of what is written, for `getkeys` reads the sentinel there.
`MaxLen` and `MaxOut` in `Sds` bound how long a call, or a loop, makes a string; the widest header holds more than twice
that and the preallocation, as 64 bits do. In `MCUjText` only literals that the parser would hand over are decoded:
with a backslash behind the first character (`String1` does not examine the first) and no open quote. A byte of the
block that the decoder did not write is one of the two in `Leftover` when it is written.

Fairness. `UjParse` and `GoParse` are single functions that keep running once called, so their steps have weak
fairness. In `RBTree` only the steps of a running operation have it; no call need ever be made. The other modules have
no liveness properties, and no fairness.

Deadlock is checked everywhere: terminal states have an explicit stuttering action.

## 4. Proofs

The proof modules use nothing but the named assumptions on the constants, which TLC evaluates in every run of the
modules. One of them says of TLA+ what the provers do not know: that literals are strings (`Literals` in `GoParse`).

Several properties and operators of the models are functions defined along links: what can be got from a node, what a
list of snodes holds. That such a function exists, and what it returns, is a fact about induction, and the library's
theorems on induction take an operator, which the provers cannot instantiate. `Walks` therefore inducts over sets: the
numbers for which a fact fails have a smallest one (`Least`, `Induct`), and so have the nodes of a set whose links all
lead to a smaller rank (`WalkInduct`). From these follow that a walk along such links exists (`WalkExists`), stays in
every closed set (`WalkWithin`), collects exactly what is led to (`WalkClosed`, `WalkReached`) and collects no less when
links are added (`WalkInclude`). For functions whose recursion does more than collect, `RecursionExists` says that
one exists whenever its value depends on the values at smaller ranks only.

`UjParseProofs` proves, for every set of buffers, every alphabet, every table of words and every length of the array
stack, from `ParseAssumption` only:

- `TypeCorrect`: `Spec => []TypeOK`. Every link leads to an allocated node, `cur` is a node, the stack stays in its
  bounds. The work is in lemmas on the heap: what a constructor returns and what `ArrAdd`, `HashStore` and `Attached`
  change and leave alone.
- `SlicesCorrect`: `Spec => []SlicesInBounds`, for parses that begin at the start of a document (`Fresh`). The property
  is not inductive: whether a slice that will be cut is in bounds depends on where its start was noted. `SliceInv` adds
  what each label knows: inside a key `1 <= keyStart < pos`, in a value the key is a good slice, in a number or string
  `1 <= strStart < pos`, and at `Number1` `pos >= 2`; between entries the key is good or nothing has been stored yet,
  which carries it across arrays and closers.
- `KeyCorrect`: the same invariant gives `KeyAssigned`, that no C local without initialiser is used as a key.
- `AdvanceCorrect`: `Spec => Advance`. Every step reads input or goes up in `Rank`, a fixed order of labels; so there
  are at most six steps per character.
- `BuildsCorrect`: `Spec => BuildsDocument`, the refinement of `UjDocument`, from any begin state: every closer returns
  to the container that holds the one closed, every value goes last into the innermost open container, nothing is lost
  or moved. The invariant, `Built`, has two parts, which say what the pointers mean. `Family`: there is a sequence of
  children for every node, younger than the node and in no other sequence, which `head`, `tail`, `count` and the chain
  of `base.parent` spell for an array and the entries for a hash. `Way`: there is a path from the root to `cur`, its ids
  growing, with the number of arrays open at each container; the up link of a hash on the path, and the stack slot of an
  array at its depth, lead one container back. The two meanings of `base.parent` do not collide because a node that is
  linked to a next sibling is a child of a container, complete, and younger than all of the path (`Older`): the tail
  that `uj_arr__add` writes to is never an open hash. `AttachedIs` says what attaching does to `Family`, `WaySame`,
  `WayOn` and `WayBack` carry the path through a value, an opener and a closer, and `LastArr` finds the array that `]`
  leaves, with hashes still open inside it. `WalkIs` and `FamilyKids` connect the recursive functions of the refinement
  mapping, `OpenPath` and `Kids`, with the path and the children.

`Fresh` is necessary: a parse begun at a label inside a key or a value, with a `beginState`, uses locals nobody
assigned, against what the comment at `src/c/ujson.c:593` asks for.

`UjTextProofs` proves of `UjDecode`, for every set of literals, of any length and over all 256 bytes, from
`DecodeAssumption` only (behind a text stands the quote that ends it):

- `DecodeTypeCorrect`: `Spec => []DecodeTypeOK`; the block keeps its size, and holds bytes.
- `DecodeStaysInBlock`: `Spec => []StaysInBlock`. That writes stay inside does not follow from where the loop is: it
  takes `io <= i`, which `Behind` adds, and which every iteration keeps because an escape is longer than what it
  writes, six characters for at most four bytes in either build. That the terminator finds room takes more, `io < i`
  once an escape has been passed: then `io < len` when the loop ends, also where its last step went beyond the end. A
  text without any escape would have no room for the terminator, which is why `StaysInBlock` speaks of `Escaped` texts,
  the only ones the parser decodes. Texts that end inside a `\u` escape are not `Complete`, and lie outside of it.

`UjTextProofs` proves of `Sds`, for every width of the five headers, each narrower than the next, every preallocation,
all texts, ranges and formats and any bound on lengths, from `SdsAssumption` only (the widest header holds twice what
the calls and loops may ask for, and the preallocation):

- `SdsTypeCorrect`: `SdsSpec => []SdsTypeOK`.
- `BlockIsSound`: `SdsSpec => []BlockSound`. The invariant is `Sound`, that is `BlockSound` without the terminator, with
  `Holds`, which says that a length fits the header's width as well as the block, and the terminator except inside
  `sdscatfmt`. `MakeRoomForSound` is what the calls rely on: the string stays what it was, and both the header and the
  block hold the length asked for. `WriteSetTerminate`, `WriteTerminateSet` and `SetLenSound` are the three orders in
  which the calls write, terminate and set the length; each call is then a short lemma. `sdsupdatelen` needs the
  terminator, or it would find no zero, and `sdstrim` the smallest and the largest index that stays.
- `SdsIsString`: `SdsSpec => ImplementsString`, the refinement of `ByteString`. On top of `Sound`, each call is shown
  to leave in the first `len` bytes of the block what its abstract call promises: nothing of what was behind the
  length, and no byte of a block that was moved, is ever part of the string the caller sees. The steps of `sdscatfmt`
  and `sdscatrepr` are appends, of an item or an escape, or change nothing that is seen.

`GoParseProofs` proves, for all data, with a callback or without, every alphabet and every table of words, from
`GoAssumption` and `Literals`; the last two, which go on with the calls of `GoNodes`, for all paths and probes that
`NodesAssumption` allows as well. The run has the specification of these two, `NodesSpec`, which makes the steps of
`Spec` until the parser has returned.

- `GoTypeCorrect`: `Spec => []TypeOK`. The invariant is `ScanOK`, the types of the locals, with `TreeOK`, in which a
  parent is older than its child and a container: that gives the walk up a floor.
- `CopyIsFresh`: `Spec => []NodeTypeIsCurs`, by `CurOK`: inside a root `cur` is a container and `nodeType` its type.
- `GoSlicesCorrect`: `Spec => []SlicesInBounds`. Here the property is inductive, but for `Number1`, which takes `pos`
  back and needs to know that something was read. Each label's slice, and which of the starts it may read, are lemmas.
- `GoOpenInTree`: `Spec => []OpenAreInTree`. The invariant is that there is a set of containers from `cur` up to the
  root, each in the one above it (`Chained`). `TreeStep` sums the labels up in what they do to the tree: keep it, store
  a leaf, open a container, leave one, begin a root. Two walks, down from the root and up from `cur`, then meet.
- `CallsKeepInvariants`: `NodesSpec` keeps these four as well, dots in keys or not. Add and Remove leave every node its
  type and parent (`SameKin`); that what Add stores is allocated takes `FramesOK`: a call of Overlay that is running goes
  over a hash that is there, and what it has left to do are keys of that hash.
- `GoNodesArePaths`: `NodesSpec /\ []KeysPlain => ImplementsPaths`, the refinement of `PathTree`. `KeysPlain` says that
  no key of a hash holds a dot, as in every state of the run. It is necessary: Overlay asks Get for the key, which takes
  a key with dots for a path and so compares with another node. A Del or the entry that ends an Overlay is a step of
  `PathTree`, the others change nothing that it sees. `NodesInv` has two parts.
  - While nodes are shared between trees, a node is never reached in two places of one. `Placed` gives each node its
    place, the same in every tree that has it, from its first steps under the parser (`NodeStep`, `Homed`) and through
    all calls (`Standing`): Overlay stores what it finds at a place of the top at the same place of the base. Without
    that, an Add to one hash could show at a second place.
  - `Running` tells what a running Overlay has done: there is a set `D` of paths that are dealt with, the heap is that of
    the beginning with just these laid over (`Laid`), the frames have just the keys that are left (`Stack`), and a hash
    that must be gone into has a frame or nothing left (`Tracked`). With no frame left `D` has every path that
    `PathTree` asks about (`Finished`), and `MergeIs` compares the two heaps with `Merge` probe by probe. The order of the
    keys never matters.
  - `CutStep` is the same for Del: `Lost` says that one entry of one node is gone, and `DelStep` that the second Remove of a
    path with dots, which asks for the undivided key, finds nothing.

`NodeLifeProofs` proves, for all documents, keys, widths of the count, and numbers of wrappers the width can count, from
`LifeAssumption` only:

- `LifeTypeCorrect`: `Spec => []TypeOK`. That no count wraps around is part of it, and follows from the count being
  what `CountsReferences` says, which is at most `MaxWrappers + 1`.
- `LifeCountsReferences`: `Spec => []CountsReferences`.
- `LifeWrappedAlive`: `Spec => []WrappedAlive`.
- `LifeHashesReleased`: `Spec => []HashesReleased`.

They have one invariant, kept apart from the code in terms of sets and tables: `Forest` (each node is stored in one
place, and what can be got from a node is part of what is stored in it) and `Books` (a node that is not gone holds
nothing that is gone; it is held, by a container, by a reference left behind or by wrappers; a hash as often as its
count says; what hides behind a key that is there twice is left behind). `CountsReferences` alone is not inductive:
that `Dealloc` frees nothing in use takes the single holder, and that it leaves no other node behind takes the clause
about nodes without a count. Each action is shown to do one of a few things to the books: wrappers are added
(`CountUp`), a document is laid behind the others and stored somewhere (`Joined`, `Added`), an entry is taken out
(`TakeOut`), a sweep clears nodes (`Removes`, `Cleared`). `HashesReleased` then follows by going up from holder to holder.

`StringTreeProofs` proves, for all keys, values, addresses and capacities, from `STAssumption` and one or two hypotheses,
which stand in the theorems. `Apart` says that no key is both stored again and deleted, `Unlike` that different keys
have different hashes; where they fail the code does not do what its comments say, which is the finding of
`strings_chains`, and the passing run has constants that satisfy both.

- `StringTreeTypeCorrect` and `StringTreeMemory`, under `Apart` alone: `Spec => []TypeOK`, `Spec => []MemoryExact`, also
  when hashes collide. The invariant `Linked` says that a list has one key, is longer than one only when that key may be
  stored again, and that what is allocated is in a list of a node of the tree; links are acyclic.
- `StringTreeListsKeys`, `StringTreeGets`, `StringTreeIsMap`, under both: `KeysListed`, `GetFinds` and the refinement
  `Spec => ImplementsMap`, step by step: a store is a store of `KeyMap` or changes no binding, a deletion one of `KeyMap`
  or nothing, the destruction is `Clear`. What they add to the invariant is one node per hash, and `Named`: the list
  holds the keys of the nodes visited, each once. `ContentsBind` connects the abstract map, which is defined by a
  `CHOOSE` over all snodes, with the first snodes of the lists.

`RBTreeProofs` proves, for every set of nodes, finite or not, all keys, equal ones too, all queries and every sequence of
calls, from `RBAssumption` only (the sentinels are no nodes and differ, keys are integers):

- `RBTypeCorrect`, `RBLinked`, `RBRedBlack`, `RBOrdered`, `RBWalksReachAll`: `Spec => []P` for `P` each of `TypeOK`,
  `Linked`, `RedBlack`, `Ordered`, `WalksReachAll`.
- `RBQueryFinds`: `Spec => QueryFinds`, an action property of the step that ends a query.
- `RBTreeIsBag`: `Spec => ImplementsBag`, step by step: hanging a node is `Insert`, freeing one is `Delete`, and the
  steps of the loops change nothing that the bag sees.

None of these can be proved without the others: that the sibling in `RBDeleteFixUp` is not a sentinel follows from the
heights, that a rotation keeps the order from the links, and that what is spliced out is next in order from both. They
have one invariant, `IInv`: there is a set `T` of nodes that is the tree, and `Stage(T)` says of it what holds at the
loop control is in. It has four parts. `Tree` is the shape, told by sets and not by a recursion: `sub[n]` is the set of
nodes under `n`, the sets under its two sides do not meet, and the links of `T` lead to `T` or `Nil` and back. `Loose`
is that nodes outside have no children, as the walks of the specification are defined over all addresses. `Sorted` is
the order between a node and the sets under its sides; while the spliced node is out it holds under two keys, that of
each node and that with the deleted node's key replaced by its successor's, so that the transplant puts the successor
where the order already expects it. `Balanced` is `Even`, a height for each node that its two sides agree on, but for
one side that lacks a black node while a deletion is repaired, with `Reds`, which says where a red node may have a red
child. What a loop knows besides is in its stage: `Descending` that the new key belongs on the side taken at every node
passed, `Querying` that every match is under `x`, `Short` that a black `x` has a parent, and that `root` is still the
root and black.

`RBShapes` has the operations on one tree, each stated once for a side `l` and its `Other(l)`, where the code has each
case twice. A rotation (`TurnGrown`) keeps the tree, the order and the heights but for the two nodes it turns, a repaint
keeps everything but `Balanced`, `HangTree` and `TakeTree` add a leaf and take out a node with one child, `MovedTree`
puts one node in the place of another. `RBTreeProofs` has one lemma per action on top of them. The properties are
defined by recursion along links; its last lemmas connect these definitions with the sets (`ReachIs`, `OrderIs`,
`CountIs`), by going up the ranks that `Depth` gives the nodes of a tree.

Only model-checked: liveness (the prover has no backend for fairness and `ENABLED`; `AdvanceCorrect` is the part of
`Termination` it can prove), and with it `OperationsEnd`, that every operation of the red-black tree ends; whatever
compares with a recursively defined reference (`ParsesDocument`, `CutIsReported`, `StreamDelivered`, `DecodesTokens`,
`ReadsBack`), which takes an induction over documents. What the theorems about `StringTree` and `GoNodesArePaths` leave
out by their hypotheses is proved nowhere: there the code is no longer what `KeyMap` and `PathTree` say, as
`strings_chains` shows for the first.

## 5. Findings

| Run | What |
|---|---|
| `readme` | the readme promises garbage for garbage; `]` with no array open reads `arrayParentStack[-1]`, an eleventh array writes behind it, an unknown word ends the process |
| `readme` | the readme promises a superset of JSON; `AC_Comment2` goes on at `Hash`, as in the Go and Perl ports; `AfterDot` does not give back the character behind a fraction, the Go port does; `String1` steps over the first character of a string, also when it is a backslash |
| `strings_chains` | a second tree node for a colliding key, of which a query finds one; `snode__delete` frees the whole list, of which the tree keeps the rest |
| `text_kept` | the readme promises a superset of JSON, and contents untouched; an escape the decoder does not know (`\\`, `\t`, `\/`, `\b`, `\f`) takes a byte that nobody writes, so that what `sdscatrepr` writes for these bytes is lost when it is read again |
| `text_kept` | the numbers from 0080 to 00ff, which the readme lists as escaped extended values, go out as one byte where `char` is signed, and twice over where it is not |
| `text_kept` | the comment above `sdssplitargs` promises that it parses what `sdscatrepr` writes; it does not know `\f` and `\u00XX` |
| `str_stale` | `uj_hash__str` drops what `sdscat` returns for a separator, against the comment above it in `sds.c` |
| `go_lost` | the recovered error is assigned to a local, so the caller gets nothing at all |
| `text_vanishes` | `initWithString` keeps slices of the UTF8String that `setObject` calls vanishing |

`ReadmeHolds` and `TextKept` are conjunctions, and the counterexamples of `readme` and `text_kept` break every conjunct
in their last state. `DecodesTokens` and `ReadsBack`, which pass, say nothing of the escapes and bytes that `text_kept`
is about.

Seen on the way, and in no run: jsonx writes every key bare, also one that is not a word and is then not read back,
though line 36 of `readme.txt` speaks of basic keys only (all keys of `Documents` are words); `uj_node__str` never frees
the string it makes for a value. In Go, Del of a path of names walks to the end of the path, and deletes the last name in what it finds there: the entry the path leads to stays; an
array laid over an array is dropped, as `GetArr` and `SetArr` are asked of the hash around it; a hash that Overlay adds
keeps its old parent. `PathTree` states the first two as they are.

## 6. Not modelled

- The printf dumps and the makefile writer: they print a tree they do not change. File helpers and gojq: stdio and calls.
- In sds: conversion of numbers to text, `sdscatprintf`'s own buffer, comparison, case, `sdsmapchars`, splitting and
  joining, which work on finished strings; `sdsfree` and failing allocations, which the callers do not look at.
- The arithmetic of the hash function: only that keys may collide matters, and `StringTree` lets any of them.
- The key cache, which is another tree of strings; the Objective-C enumerator and number conversions.
- In Go: documents whose keys hold dots, which the steps of `GoNodes` allow but no run has; SetArr on arrays, the
  conversions of values to bool, int and text, the dumps.
- The Perl parser: the third copy of the machine, which differs at a few labels.
- Tests and builds. The documents of `ujsonin_test.go` are among those of `MCGoParse`.

## 7. Plan

Done, the most important behaviour first: the C parser with `UjNode`, `UjDocument` and proofs; `RBTree` on `OrderedBag`,
with proofs; `StringTree` on `KeyMap`, with proofs; `GoParse`, with `Documents` shared by both parsers, with proofs;
`NodeLife` with proofs; `UjDecode` with proofs; `Sds` on `ByteString`, with proofs; the writers, composed with the
parser and the strings; `GoNodes` on `PathTree`, composed with the parser.

Left, modules:

1. The Perl parser, over the documents of the other two.
2. The key cache, with colliding keys and its destruction.

Left, theorems: none of the safety properties that a proof can reach. A model of Overlay on keys with dots would need a
`PathTree` in which a key may stand for a path.
