# Snipdocs in TLA+

Snipdocs is a collection of self-contained components: containers in C and C++,
a persistent hash database, a MessagePack codec, bindings, and small scripts.
They share no state and do not call each other (each header stands alone), so
the modules here come in families, one per component. The small ones are
brought together in `Parts` and checked in one run of it, which is no
composition: every behaviour of it belongs to one component. What composes is inside a component: a pure table, the object that
maintains it, the file system around it, and the abstract promise above it.

## Inventory

| component | state | operations | what is hard |
|---|---|---|---|
| `C++/hashdb.h` HashDB | a memory-mapped hash file (capacity, size, fill, pairs), a value file (valuecapacity, valuesize, bytes), the paths they are believed to have | open, load, close, clear, erase, set, get, contains, rehash, collect_garbage, iteration | tombstones end probes; rehash copies without probing; paths after load; regions of the value file; order of writes against a crash |
| `C/map.h` Map | a header (length, tombs, capacity, callbacks) with buckets | create, set, get, del, rehash, reserve, clear, destroy, iteration | reuse of tombs; counters that end loops; one destructor call per item |
| `C++/stringtable.cpp` StringTable | a byte vector of items, hash to id, id to index, two counters | insert, erase by string or id, find, rehash inside insert | a string and its id stay together through erasure and rehash; counters that wrap |
| `C/old/dict.c` Dict | chained buckets, length, a prime capacity | set, get, clear, destroy | collisions, an empty dictionary, one destructor call per node |
| `C/vect.h` Vect, `C/str.h`, `C/strv.h` | header and items; bytes with terminators; views | create, insert, delete, pop, resize, reserve, clear, destroy; replace, remove all, search, split | moves by one, what lies behind the end, item destruction, terminators, lengths that wrap |
| `C++/msgpack.h` MsgPack | a byte buffer and a read position | pack and unpack of each type, visit | format boundaries, widths, truncated buffers |
| `C++/luaxx.*` | the Lua stack | push, get, call | stack discipline |
| `C++/utils.*`, `to_integer.cpp` | none | string functions | boundaries |
| `C++/rpc*.h`, `defer.h`, `error.h`, `types.h`, `tuple_sequence.h` | none | compile-time dispatch, scope guards | order of deferred calls |
| `FLTK/flx`, `ImGui/application.h` | widget geometry | layout, a render loop | none that a model adds to |
| `Ruby/bluetooth_rofi.rb` | menus over BlueZ objects, a stored adapter address | choose, toggle, scan, connect, pair, block | menus that act on what was read before the user chose, while other clients act too |
| `Ruby/device.rb` | a device table fed by a pipe from udev | read a line | events it must skip between the ones it reads |
| `Ruby/bluetooth_tanto.rb` | one window over the same adapters | show | none: nothing that is chosen in it has an effect |
| other scripts, themes, build files | none | | not modelled |

`C/old/str.c`, `strv.c` and `vect.c` are earlier versions of the headers in `C/`.

Correctness, per component: HashDB and Map should be dictionaries, their lookups
must end, their counters must be what their loops and load checks take them for;
a persistent database must give back what was written under the same name; an
item a Map, a Dict or a Vect owns must be destroyed once; a Vect and a Str must
show the sequence the calls made, whatever moves and growth did to the memory; a
toggle must do what its label said; a device table must catch up with the devices; a StringTable must never give an id
twice; a codec must read back what it wrote.

## Modules

| module | models |
|---|---|
| `KVStore` | abstract: named stores, one in use, values kept over close and load |
| `HashTable` | the mapped table of HashDB as operators: probe, set, erase, clear, rehash |
| `HashDB` | class HashDB for values in place: files, the mapped file, `m_fhashpath`; one action per call |
| `HashDBDirect` | HashDB under the clients it serves as a `KVStore`, with the refinement mapping |
| `HashDBSplit` | class HashDB with a value file: regions, growth, garbage collection |
| `HashDBCrash` | class HashDB for values in place, store by store, killed at any point, inside a copied pair too, and loaded again |
| `OwningMap` | abstract: a dictionary that owns its items and releases each once |
| `Map` | `C/map.h` with an item destructor |
| `Interner` | abstract: things with ids that are never given to another one |
| `StringTable` | class StringTable |
| `MsgPack` | `C++/msgpack.h`: pack of every type, a buffer that may lose its end, visit with a visitor that may stop |
| `CMemory` | blocks of memory: `memmove`, and growth by the default allocators |
| `OwningSeq` | abstract: a sequence that destroys what is deleted from it, once, and hands back what is popped |
| `Vect` | `C/vect.h` with an item destructor |
| `StrV`, `Str` | the searches and the split of `C/strv.h` as operators; `C/str.h` byte by byte |
| `Dict` | `C/old/dict.c` with a node destructor |
| `UDev` | `device.rb`, the lines that udevadm writes and the devices that come and go |
| `Bluetooth` | `bluetooth_rofi.rb`, one read or call over the bus at a time, with BlueZ and its other clients |
| `Parts` | `Dict`, and `Vect`, `Str`, `UDev` and `Bluetooth` as instances, side by side |
| `HashTableProofs`, `HashDBProofs`, `HashDBSplitProofs`, `HashDBCrashProofs`, `StringTableProofs`, `MapProofs`, `MsgPackProofs`, `PartsProofs` | theorems, see below |
| `MC*` | instances for TLC |

Conventions. An operator or action has the name of the function it models where
that is possible. A call that returns early without a change is a stutter, and
mostly left out. Definitions such as `StoredKeepingKey` right before `Stored`
are variants with a plausible mistake in them: no specification uses them; the
properties are known to fail when one takes the place of its neighbour.

### HashDB

The mapping is shared (`MAP_SHARED`), so the model keeps the table in
`files[at]`, the file it is mapped from: an edit of the mapping is an edit of
the file, whatever path the object believes in (`hpath`, `m_fhashpath`). `load`
gives an object whose path lacks the name; then `rehash` renames the new file to
`.hash`, the table moves there, and the file under the name keeps the old table.
`set` and `collect_garbage` contain `check_rehash`, so `Set` and
`CollectGarbage` contain `Rehashed`. `rehash` is written as one function of the
table and not as its loop: every FULL pair goes to its home slot in slot order,
so of those with one home the last one stays.

Keys and values are abstract; a hash is any function of the key. Files fail in
no way here and no call is interrupted (`HashDBCrash` is about that). Bounds: `MaxCapacity` stops growth after
one rehash, `MaxFill` the number of used slots; the initial capacity is 5 for
4096, the smallest for which an empty slot remains at every load that
`check_rehash` lets pass (`CapacityAssumption`; the theorems hold from there up).

What holds for every client: well-formed tables and counters, lookups that end,
reads that return only what was written under the key, sets that disturb no
other key, a set that is read back, an erased key that is gone. What does not
hold, because tombstones end probes and `rehash` does not probe: that a key
keeps its value when another is erased, or through a rehash. So `HashDB` is a
key-value store only for keys with slots of their own, and only if a database is
not grown after `load`: that is what `HashDBDirect` states and proves.

In `HashDBSplit` the bytes of a value are `<<v, 1>> .. <<v, Len[v]>>`, so a read
can tell whole values from mixtures. Its properties are those of a tidy client
(garbage is collected only while there is no tombstone) with values of at most a
quarter of the initial value file: for the others the code does lose data, since
`collect_garbage` leaves tombstones their old regions and `extend_value` doubles
only once. TLC explores it modulo bytes that no read returns (`ReadableState`).

In `HashDBCrash` a call is cut where a kill can show:
`set` goes through `SetCalled`, the rehash if one is due (`StartRehash`,
`CopyPair` for each pair, `RemoveOld`, `RenameNew`), `WriteKey`, `CountEntry`,
`CountSlot`, `WriteValue` and `MarkFull`, and `erase` and `clear` (`ClearPair`
for each pair, `ClearSize`, `ClearFill`) likewise. Most actions are one store into the mapping or one file
operation. Three are more. The copy of a pair (`hashdb.h:501`) is one statement
and several stores, in an order that is the compiler's: `KillInCopy` is a kill
after any of them, that leaves some fields of the new pair and not the others.
`ClearPair` zeroes the fields of a pair, the state first; what is left of the
others after a kill nobody reads. `StartRehash` gives the `.tmp` file its size
and its header; what a kill leaves of the header the next rehash replaces.
`Kill` ends the process between two actions of a call. The mapping is shared and
the system stays up, so the files hold every store made before, and it is assumed that the
compiler keeps the stores in the order of the source. A kill between two calls
is what `close` is, since `close` writes nothing. `open` is one step: one that
was interrupted can leave a file that `load` accepts with a capacity of 0.

What kills cannot do: give a key the value of another (`ReadsAreOwn`), but for
the half-copied pair below; let any step of a `set` show more than the old or the
new answer for its key, or hide another key (`SetIsAtomic`); or put a table in
the place of the old one before it is complete (`NewTableIsComplete`, where the
table is what the one-step `Rehashed` of `HashTable` gives: the loop and the
function are shown equal). Each costs the counters at most one
(`KillsCostOne`). Three things it takes a history variable to exclude. A rehash
opens its `.tmp` file without truncating it, so one that a killed rehash left
over brings pairs back that were erased since (`reused`). If that rehash was
killed inside the copy of a pair, one of them may have the key of one entry and
the value of another, or of none, and if the slot is not written again `get`
answers with it (`mixed`: `ReadsAreOwn` holds up to there). After two erasures that were each half done `size` can
be below zero, so `SetIsAtomic` is stated for at most one.

### Map

A bucket keeps key, hash, state and item; `held` is the set of items put in and
not destroyed, which the item destructor shrinks. Counters are `uintptr_t`
(`Word` values). Inserting over a tomb is the one thing the code gets wrong
(`map_tombs`), so the properties are those of a client that adds no key while
there are tombs, unless the insertion is going to rehash; `map_rehash` to the
same size and `map_clear` remove them. The copy loop of a rehash finds its
buckets in the mode that destroys what it replaces, so a key that was in the map
twice would cost an item there (`DestroyedByRehash`); that this set is empty for
the tidy client is part of what is checked and proved. `ImplementsOwningMap` then
covers set, replace, delete, rehash, reserve, clear and destroy at once. The capacity is 4
or more: with 1, 2 or 3 the map can be full before its load reaches 3/4, and a
lookup of an absent key never returns. `map_del` as a macro assigns a `bool` to
the map pointer and `map_contains` names a parameter that does not exist: the
model is of the functions `_map_del` and `_map_get` behind them.

### StringTable

Items are found only through `m_ids`, so the model goes from id to item and
leaves out the byte offsets. `insert` finds a string by its hash and does not
compare the bytes, so of two strings with one hash the second gets the id of the
first, and `find` gives the first back. The model has such strings; what the
code keeps is that a hash has one id and an id one hash, and that is what
`ImplementsInterner` says. A string inserted twice, or one of its hash, is counted
twice and makes `m_nfree` wrap; `CountersAgree` says what survives of the
counters. `find` of an erased id that no rehash has dropped yet makes a
`string_view` of a null pointer; reads are not part of the model.

### MsgPack

A byte is a number, so that heads, lengths and integers are packed and parsed
as they are in the code; the bytes of a string, a binary or an extension are
zeros, and the visitor is handed the place of the payload in the buffer, which
tells more than its bytes would. The client packs values one by one, the items
of a container after it (`open`), and `packed` collects the calls that a visitor
should see; then the buffer, or all but the last bytes of it, is visited.
`todo` is the stack of `impl::visit`: the `&&` chains of `visit_array` and
`visit_map` are unrolled into the calls and nested visits that they make, which
is exact since one false ends all of them. A visit ends as `done` (the loop ran
out of bytes), `ended` (`at_end` inside a container), `failed` (an exception or
an assertion) or `stopped` (by the visitor).

Two kinds of value do not come back: an `int8_t` below -32 is packed as its one
byte without a format, which reads as something else, and nothing reads the
FIXEXT16 that `pack_ext` writes for 16 bytes. The client packs them too
(`lost`), and the properties say what holds beside them. After such a byte visit
can also meet a length that is a negative FIXNUM, which `unpack_int` casts to
the unsigned type (`UnpackSize`). `MsgPackAssumption` says what the types of C++
say of the integers, that a length fits 32 bits (what `pack_bin` and `pack_ext`
take for granted), and that an extension has a type from 0. The lengths of more
than 65535 are in the operators and in the theorems, but no run is large enough
to use them. `unpack` into typed variables is not modelled.

### Vect, Str and StrV

The memory of a vector or a string is a function from offsets (`CMemory`), so
the moves, the zero-filled growth and what lies behind the end are as in the
code, and the length is a number beside it. In `Vect` the assignments that
`vect_ins` and `vect_add` make, and those a client makes after a resize, are
part of the action; `vect_del_n`, pop and resize call no destructor, so in
`OwningSeq` the items go back to the client. `vect_resize` is modelled by
`_vect_resize`, its macro does not compile; neither do `str_add_n`, `str_ins`
and `strv_rpop_n`, which are left out. A client puts in no item that is in the
vector already and deletes no item of none, as the assertions ask.

Lengths are `uintptr_t` of `Word` values. Two functions add a length that the
client gives to a position before they compare the sum, and in both it may wrap
around: `str_del` and `vect_del_n`. In `str_del` the range check then lets it
pass (`str_del`, the run). In `vect_del_n` the end comes out before the start,
the clamp lets it pass and the vector gets longer; that is proved for every such
number (`WrappedDeletionGrows`), and `ImplementsOwningSeq` is of a client whose
numbers (`Count`) do not wrap.

`str_pop_n` and `str_resize` set the length only: what follows may be a text with
no terminator behind it, or with one in it. `EditsActOnText` shows that the
insertions, deletions and replacements are exact even then, and
`MemoryEndsInNul` that a terminator is always left at the end of the memory.
`str_delstr` is of a string whose terminator is within its length: otherwise
`strstr` may find an occurrence that reaches behind the length, and the number of
bytes to move becomes negative. A `replace` is of C strings, and
`str_index` looks within the length. What `SearchesAgreeButAtEnd` says of
`_cstr_lastindex_n` and `_strv_split_n` is what is true of them: the first
misses an occurrence at the very end, and the second returns no token for what
is behind the last separator. An empty separator splits for ever.

### Dict

`_dict_insertnode` has a loop over the nodes of a bucket, but follows the null
pointer at its end when it means to link a node there. So a bucket never has two
nodes, the model keeps at most one, and the crash is an action (`SetCrashes`),
in the insertion or in the rehash; `dict_get` before the first `dict_set`
divides by zero (`GetCrashes`). Both end the run. Up to there `ImplementsOwningMap`
holds, of the abstract map that `C/map.h` implements too. The rehash is written
as a function of the nodes, since their order makes no difference when no two
meet. The load check looks before a replacement too, as the code does.

### UDev

The environment adds, removes and changes devices and writes the lines of an
event into the pipe; `ReadLine` is one turn of `each_line`. The lines of an event
that is not read are skipped one by one, as headers that do not match. A
property of the format that the code relies on is part of the model: no property
line looks like a header, and every event ends with an empty line. Devices may be
there before the monitor starts, which the script does not list. udevadm drops
no event in the model; one that it dropped would leave the table wrong for good.

### Bluetooth

Each read and each call over the bus is a step, and `Others` may act between any
two, so the menu shows values of different moments. The script reads a property
once more to negate it; `stale` records which of the shown ones changed before
that, and for these a toggle may do the opposite of what the user saw.
`ToggleAsShown` says that for all others it does what its label said, whatever
else happens, between that second read and the write too. The device menus do
not do what they are for, and no property says they do: the row of a device that
has any flag ends with an icon and does not match the pattern of line 220, and an
open device menu is shown again with the properties from before (line 161), so
Disconnect, Unpair and Unblock are never offered. `Raise` stands for any
call that fails. A choice that is a capitals-and-digits device name overwrites the
stored address (`WriteConfig`). rofi returns the text of a row that was shown,
or nothing. The rows of BlueZ objects that appear or vanish are not modelled:
the devices are fixed, their flags are not.

## Runs

| run | shows | bounds |
|---|---|---|
| `hashdb_table` | types, counters, termination of lookups, reads, sets that are read back and disturb no one, erasures | 3 keys, two of which collide at both capacities and one is behind them; 2 values (symmetric); capacities 5 and 10; fill up to 4 |
| `hashdb_direct` | `HashDBDirect` implements `KVStore` | 4 keys, which force a rehash; 1 name, 1 value |
| `hashdb_split` | regions, growth and collection of the value file | 2 keys, values of 1 and 2 bytes, a file of 8 bytes that doubles once; no call of `set` rehashes (fill stays at 2), the public `rehash` does |
| `map` | `Map` implements `OwningMap`; counters, termination, reachability | 4 keys with shared hashes, 5 items (symmetric), capacities 4 to 8 |
| `stringtable` | `StringTable` implements `Interner`; lookups, counters | 4 strings, two of which have one hash, 5 ids, m_ntable up to 6, a word of 16 |
| `hashdb_crash` | what kills and reloads leave of a table | 4 keys, two of which collide and two follow, one key with two values (symmetric); capacities 5 and 10; 5 calls that change the table, 2 kills; states that differ in what nobody reads are one (`ReadableState`) |
| `msgpack` | visit shows what was packed, in order, whole or up to where the buffer was cut or the visitor stopped | 3 values of every kind: strings of 31, 32, 128, 255 and 256 bytes, binaries of 127, 255 and 256, extensions of 2, 3, 16, 255 and 256, arrays and maps of up to 15 and of 16, integers at some of their limits, containers in containers; the last 1 to 5 bytes cut, or as many as cut within the longer payloads and their heads. No length is above 256: 65535/65536 is left to the theorems |
| `parts`: Vect | `Vect` implements `OwningSeq` | 3 items, length up to 3, a default capacity of 2: growth at each length; deletions of up to 4 items, beyond the end too |
| `parts`: Str | bytes at the end, edits of the text, removal of all occurrences, searches | 2 letters, words up to 2, length up to 4, a default capacity of 2 |
| `parts`: Dict | `Dict` implements `OwningMap` up to a crash; its length | 5 keys that are their hashes, 4 nodes, capacities 3 and 7: of the keys three fill the first table, and pairs meet in either |
| `parts`: UDev | the table catches up once the events stop | a USB device, its interface and a SCSI device, any of them there at the start; 3 events |
| `parts`: Bluetooth | toggles | 2 adapters, 2 devices one of which has a name like an address, one switch beside power and scanning, 1 change by other clients |
| `hashdb_tombs` | violation: fill after a rehash that dropped a pair | 2 colliding keys |
| `hashdb_reload` | violation: a rehash after load leaves the old file | 1 key |
| `map_tombs` | violation: an insertion over a tomb is lost | as `map`, any client |
| `str_del` | violation: a range that wraps changes the string | words of 4 bits, length up to 4, n = 0, 1 or `str_npos` |

The table instances are small, but a collision, a full cluster, a wrap-around,
a tombstone before an entry and a rehash with and without loss occur in them.
The paths are those of one name: that no value crosses from one named database
to another, or from one generation of a file to the next, is proved for any set
of names (`ReadsAreWritten`), and `hashdb_crash` has the file without a name
beside the named one.

`parts` is one run over five components that share nothing: the variable
`subject` says whose behaviour it is, and the variables of the others stay as
they begin, so each property is checked of exactly the behaviours of its own
component. It does not check for deadlock, because a dictionary may crash, the
bounded events of `UDev` end, and so does the Bluetooth script. `msgpack` does not
either: a visit ends.

The components are sequential, or react to what others do, and only one of them
owes an answer: the device table. `UDev` assumes weak fairness of `ReadLine` and
of nothing else. The script does nothing but read lines from a pipe that udevadm
keeps open, so a line that is there is read; nothing obliges devices to come or
go, and `CatchesUp` holds of every pace at which they do. Whether a lookup loop
ends is no matter of fairness, and is the invariant `EveryProbeEnds`.

## Proofs

Every property of a passing run but one (`CatchesUp`, of which the safety half is
proved) is the subject of a theorem, which states it for all values of the
constants. The assumptions on
the constants are named and are evaluated by TLC on the runs: the capacities
from which a free slot remains, distinct markers, finite bounds, integers that
fit their types. Each safety theorem rests on an inductive invariant that was
checked by TLC before it was proved.

For every set of keys, hash function, capacity from 5, names and values:

* `HashTableProofs`: operators keep a table `Healthy`. The central lemma counts:
  `RoomLeft` (the load bound plus the one entry added after the check) and
  `CountersAgree` (fill is size plus tombstones, live entries at most size)
  leave a slot that is EMPTY, so the probe of every key stops. For keys with
  slots of their own every operator keeps each entry in its slot (`AtHome`).
* `HashDBProofs`, the table: `IInv` says of every file that its table is
  healthy. Room is needed because the counters alone do not bound fill, and for
  all files because `load` may map any of them. From it follow `TypeCorrect`,
  `CountersCorrect` and `LookupsEnd`.
* `HashDBProofs`, the reads: `IInv` says nothing of the history `wrote`, so
  `WInv` adds that the pairs of the entries of every file, the unnamed one
  included, are among those written to it (`AllWritten`). Each operator of
  `HashTable` adds no entry but the one it is given: `ReadsAreWritten` follows.
  `SetsAreRead` and `ErasesAreRead` need no more than `IInv`: the probe of a key
  ends at the same slot before and after its own slot was written, whatever
  ended it. `SetsKeepOthers`: the probe of a key that can be read ends at the
  key's own entry, and no set of another key writes there or puts an end to it
  earlier.
* `HashDBProofs`, the clients of `HashDBDirect`: `AllAtHome`, entries are in the
  slot their key hashes to, and from it `Refinement`: each action is the
  `KVStore` action of its name or a stutter (rehash, garbage collection).
* `HashDBSplitProofs`: the regions of a value file, for all keys with slots of
  their own and all values of at most a quarter of the first file (`DirectKeys`,
  `SmallValues`), under `TidySpec`. The invariant `IInv` is that the regions of
  all occupied slots are disjoint and below `valuesize`, and that the file holds
  that many bytes. It is of tombstones too, as a set may take one over with its
  region. Garbage collection is an argument by counting: the bytes copied before
  a slot (`CopiedBefore`) inject into those that were handed out, as the regions
  were disjoint, so `valuesize` never grows by it, and a region starts where the
  bytes before it end. `RegionsDisjoint`, `RegionsBelowSize` and
  `FileHoldsValues` follow. A second invariant, `HInv`, says what the bytes are:
  each region of an entry holds a whole value. With it `CallsStayApart`: each
  call does to what is read what it does to a dictionary.
* `HashDBCrashProofs`: every store and file operation is a step here, and none is
  atomic with the next. The invariant `IInv` is that each FULL pair of every hash
  file, and of the .tmp file that a running rehash fills, is whole (`Sound`: its
  key is one, its value one that was set for it), together with how far the
  running `set` has got in its slot (`JobDone`). Of a .tmp file that a killed
  rehash left only the shape is known, as the kill may have been in the middle of
  a pair; so `IInv` holds until a rehash takes over a pair that is not whole
  (`Inductive`: `~mixed => IInv`). `KilledReadsAreOwn` follows, of a `get` that
  ends. `CInv` is about the counters: how much `size` and `fill` may be short
  at each point of a call, with the counters taken as signed numbers, that the
  .tmp file holds exactly the part of the table that was copied, and that a slot
  is left for the probe. What it counts holds until a rehash meets a .tmp
  file that was left over. `CountsSurviveKills` and `CopiesAreComplete` follow,
  and `SetsAreAtomic` compares the probe of every key before and after each of
  the five stores of a `set`.

For every set of strings with any hashes, every word and all bounds:

* `StringTableProofs`: the invariant `IInv` is that hashes and items lead to each
  other (`Linked`), that `insert` returned the id of an item when it last got its
  hash, and no id for two hashes (`GivenIds`), that no id was given beyond the
  next one, and `CountersAgree`. `Linked` alone does not relate the table to what
  callers were told, and an id could be given again if the next one fell behind.
  `Refinement` is then: inserting a string of a new hash gives an id that none
  ever had, and a rehash is a stutter; `LinksAgree`, `CountersCorrect` and
  `TypeCorrect` are parts of the same invariant. Nothing is assumed of
  collisions but in `FindsTheString`, which says what their absence gives: the
  item of an id that `insert` returned has the string that it was given.

For every set of keys with any hashes, every set of items, and all capacities
from 4, for the client of `TidySpec`:

* `MapProofs`: the invariant `IInv` is that the map is `Healthy` (every entry is
  reached by the probe of its key, no key is in two buckets, the counters count
  FULL and TOMB buckets, and they leave a NULL one), that `held` is the items of
  the entries, and that no item is in two of them. The loops of `_map_rehash` and
  `map_clear` are recursive functions, and what each turn keeps is proved by
  induction over the buckets. Five theorems: `CountersStayExact`, `ProbesEnd`,
  `EntriesStayFound`, `ClearEmpties`, and `Refinement`, in which a rehash, that
  moves every entry and destroys none (`Rehashes`), is a stutter of the owning
  map.

For all integers of the eight types, lengths of up to 32 bits, any containers in
containers, any cut of the buffer and any visitor:

* `MsgPackProofs`: `EInv` says that the position is behind the end of the buffer
  if and only if a string was shown that goes on there, and that no value was
  shown since; `NothingBeyond` follows. `OInv` holds the history that the other
  three need (`Told`): what was packed is a row of values, each with the place
  where it begins, the calls said up to it and the containers open there. While
  visit runs, what was seen and the calls that are owed next are what was said up
  to the place that is reached, and the stack of `impl::visit` is the rest of the
  agenda of the containers that the client had open at that place: the client's
  view of nesting, one part at a time, and the reader's, all parts of a container
  at once, meet in `FollowsOnward`. `ChunkBack` is the codec: at a place where a
  value was packed, visit makes the call that was meant and moves behind it, or
  fails as the end is missing or the value is one that is lost. It rests on one
  lemma per format, and on an induction over the bytes of a number. `OrderKept`,
  `WholeShown` and `WholeVisited` follow. `IntegersComeBack` states the codec of
  integers by itself, for `unpack_int` called with any types, as `unpack` does.
  `LowInt8IsLost` and `Ext16IsRefused` are about the two values that the client
  of the runs is told to be lost: an `int8_t` below -32 is never read as a value
  of one byte, and `visit` fails at each extension of 16 bytes.

For the components in `Parts`, under the assumption of each (`DictAssumption`,
`VectAssumption`, `StrAssumption`, `UDevAssumption`, `BluetoothAssumption`, all evaluated by
`MCParts`), `PartsProofs` has:

* Dict: the invariant `DictInv` is that every node is in the bucket of its key
  (`WellFormed`), that the nodes are exactly the ones put in and not destroyed,
  that no item is in two nodes, and that the length is their number. The central
  lemma is that a rehash in which no two nodes meet keeps the set of nodes.
  Without the second and third part a node could be destroyed while it is in the
  table. `DictRefinement` maps `Set`, `Clear` and `Destroy` to `OwningMap` and the
  crashes to stutters; `DictLengthExact` is a bijection between the nodes and the
  keys that are answered.
* Vect: `VectInv` is that the memory is typed up to its capacity, that no item is
  at two positions, and that none in the vector was destroyed. In
  `VectRefinement` a deletion, by a number that does not wrap around
  (`VectAssumption`), is one of the sequence, the moves by one are an
  insertion or a removal, pop and a smaller resize hand items back, a larger
  resize appends, and clear and destroy delete all.
* Str: `StrInv` is that the last byte of the memory is a terminator and the text
  ends before it; each edit is a splice of the text, whatever is behind it
  (`TerminatorStays`, `EditsAreOfText`). The loops of `str_delstr_n` and
  `strv_foreach_split` are recursive functions, unfolded and followed by
  induction over their turns: `DelstrIsThorough`, `SearchesOfEveryText`. It is
  assumed that a length and its terminator fit a word.
* Bluetooth: `ShownInv` says that the labels that are not stale show what BlueZ
  has, up to the moment the script reads the property to negate it, and that
  from then on what is to be written is the opposite of what was shown, from which `TogglesAsShown` follows whatever other clients do
  in between.
* UDev: the safety half of `CatchesUp`, for any devices and any number of events:
  whenever nothing is left in the pipe, the table holds the USB devices that are
  announced (`TableIsRight`). `UDevInv` says that the lines that were read and
  those in the pipe are together a log of whole events (`Log`), that `@device`
  is what the lines read so far say of the event at that point (`Reader`), and
  that of each device the last event ahead, or the table if there is none, tells
  whether it is announced (`Settled`). It is assumed that nil is no event
  (`UDevAssumption`).

Only model-checked: that the pipe of `UDev` is read to its end, which is the
liveness half of `CatchesUp`, and all that the runs with an expected violation
refute. ENABLED and liveness are beyond
the provers. So is induction in the form of the library's theorems, which take
an operator as a parameter: inductions are over a natural number here, by the
least counterexample (`LeastNatural`), and the loops of the code are therefore
recursive functions. What a fold of the community modules computes
(`FoldLeft`, `SelectSeq`) is not used where a theorem depends on it, except
`FlattenSeq`, whose definition is unfolded (`FlattenLoop`).

## Not modelled

* `C/old/str.c`, `strv.c`, `vect.c`: earlier versions of the headers in `C/`.
* `unpack` of MsgPack into typed variables, and `unpack_bool`; crashes around a
  value file or inside `open`; the iterators.
* `luaxx`, the widgets, the render loop: what they do is what the libraries
  around them do, and those are not in the repository.
* `rpc.h`, `rpc_checkparams.h`, `types.h`, `tuple_sequence.h`, `defer.h`, `error.h`:
  compile-time dispatch and macros, without state.
* `utils` and `to_integer`: pure text functions.
* `bluetooth_tanto.rb`: it prints what was chosen and ends.
* Other scripts, themes and build files.

Worth doing next: `unpack` of MsgPack into typed variables beside `visit`;
crashes around a value file.
