------------------------------- MODULE GoNodes -------------------------------
(***************************************************************************)
(* What a caller of go/ujsonin.go does with the roots it was given: Get,   *)
(* Del and Overlay on nodes that the parser made (GoParse), in its heap.   *)
(* Overlay calls itself on the values of a hash, in the order in which     *)
(* range gives its keys, which is any: an entry of a call is a step.       *)
(***************************************************************************)
EXTENDS GoParse

CONSTANTS
  Paths,     \* the keys Del is called with, dots included
  MaxCalls,  \* bound: how many calls are made
  Probes     \* the places in a tree at which its value is looked at

VARIABLES
  frames,    \* the calls of Overlay that are running: [self, top, todo]
  call,      \* the last call made on a root, [op, root, arg], roots by number
  calls,     \* how many were made
  fault,     \* whether the last one panicked
  before     \* ghost: the heap when Overlay was called

nodeVars == <<frames, call, calls, fault, before>>

NodesInit ==
  /\ frames = <<>> /\ calls = 0 /\ fault = FALSE /\ before = <<>>
  /\ call = [op |-> "none", root |-> 0, arg |-> 0]

-----------------------------------------------------------------------------
(* strings.Split( key, "." ).                                              *)
Split(k) ==
  LET parts[n \in 0 .. Len(k)] ==
        IF n = 0 THEN << <<>> >>
        ELSE IF k[n] = "." THEN Append(parts[n - 1], <<>>)
        ELSE [parts[n - 1] EXCEPT ![Len(parts[n - 1])] = Append(@, k[n])]
  IN  parts[Len(k)]

(* Steps down a tree: to an entry of a hash, to an element of an array.    *)
Strides == ({"key"} \X Seq(STRING)) \cup ({"item"} \X Nat)

ByKeys(parts) == [i \in 1 .. Len(parts) |-> <<"key", parts[i]>>]

(* A place is probed with all the places on the way to it, and Del is told  *)
(* of places that are.                                                     *)
ASSUME NodesAssumption ==
  /\ Paths \subseteq Seq(STRING) /\ MaxCalls \in Nat
  /\ Probes \subseteq Seq(Strides) /\ <<>> \in Probes
  /\ \A p \in Probes : \A i \in 0 .. Len(p) : SubSeq(p, 1, i) \in Probes
  /\ \A k \in Paths : ByKeys(Split(k)) \in Probes

(* Get of one node and GetAt: only a hash has entries.                     *)
Child(h, n, s) ==
  IF n # nil /\ h[n].type = "hash" /\ s[1] = "key" /\ s[2] \in DOMAIN h[n].hash
  THEN h[n].hash[s[2]]
  ELSE IF n # nil /\ h[n].type = "arr" /\ s[1] = "item" /\ s[2] \in DOMAIN h[n].arr
  THEN h[n].arr[s[2]] ELSE nil

Find(h, n, path) ==
  LET node[i \in 0 .. Len(path)] == IF i = 0 THEN n ELSE Child(h, node[i - 1], path[i])
  IN  node[Len(path)]

(* Get.                                                                    *)
Get(n, k) == Find(heap, n, ByKeys(Split(k)))

(* delete( self.hash, key ), for a hash; the others do nothing.            *)
Remove(h, n, k) ==
  IF h[n].type # "hash" THEN h
  ELSE [h EXCEPT ![n].hash = [x \in DOMAIN @ \ {k} |-> @[x]]]

Root(r) == chunks[r]
Roots   == 1 .. Len(chunks)

Idle == pc = "Returned" /\ err = "none" /\ frames = <<>> /\ ~ fault /\ calls < MaxCalls

Called(op, r, arg) ==
  /\ call' = [op |-> op, root |-> r, arg |-> arg]
  /\ calls' = calls + 1

(* The value of a node: what is where below it, without the nodes.         *)
Value(h, n) ==
  [p \in Probes |->
     LET m == Find(h, n, p)
     IN  IF m = nil THEN [type |-> "none", str |-> <<>>]
         ELSE [type |-> h[m].type, str |-> h[m].str]]

Values(h) == [r \in Roots |-> Value(h, Root(r))]

-----------------------------------------------------------------------------
Same == UNCHANGED <<args, pc, pos, keyVars, numVars, endc, strVars, cur, nodeType, root, outVars>>

(* Mutant: a path is deleted in the hash that holds its end.               *)
Del_Parent(r, k) ==
  /\ Idle /\ r \in Roots
  /\ LET parts == Split(k)
         last  == parts[Len(parts)]
         found == Find(heap, Root(r), ByKeys(SubSeq(parts, 1, Len(parts) - 1)))
     IN  IF Len(parts) > 1 /\ heap[Root(r)].type = "hash" /\ found = nil
         THEN fault' = TRUE /\ UNCHANGED heap
         ELSE fault' = FALSE /\ heap' = Remove(heap, found, last)
  /\ Called("del", r, ByKeys(Split(k)))
  /\ Same /\ UNCHANGED <<frames, before>>

(* Del.  For a key with dots the walk goes on to the last part, and the     *)
(* node found there is asked to delete that part; a nil node is not asked,  *)
(* the call panics.  Then the undivided key goes as well.                   *)
Del(r, k) ==
  /\ Idle /\ r \in Roots
  /\ LET parts == Split(k)
         last  == parts[Len(parts)]
         found == Find(heap, Root(r), ByKeys(parts))
     IN  IF Len(parts) > 1 /\ heap[Root(r)].type = "hash"
         THEN IF found = nil THEN fault' = TRUE /\ UNCHANGED heap
              ELSE fault' = FALSE /\ heap' = Remove(Remove(heap, found, last), Root(r), k)
         ELSE fault' = FALSE /\ heap' = Remove(heap, Root(r), k)
  /\ Called("del", r, ByKeys(Split(k)))
  /\ Same /\ UNCHANGED <<frames, before>>

(* A call of Overlay: of a hash, with the entries of a hash.               *)
Frame(self, top) ==
  IF heap[self].type = "hash" /\ heap[top].type = "hash" /\ DOMAIN heap[top].hash # {}
  THEN <<[self |-> self, top |-> top, todo |-> DOMAIN heap[top].hash]>> ELSE <<>>

Overlay(r, q) ==
  /\ Idle /\ {r, q} \subseteq Roots
  /\ frames' = Frame(Root(r), Root(q))
  /\ before' = IF frames' = <<>> THEN <<>> ELSE heap
  /\ Called("overlay", r, q)
  /\ Same /\ UNCHANGED <<heap, fault>>

(* Mutant: a hash replaces a hash.                                         *)
OverlayEntry_Replaces ==
  /\ frames # <<>>
  /\ \E f \in {frames[Len(frames)]} : \E k \in f.todo :
       LET others == SubSeq(frames, 1, Len(frames) - 1)
       IN  /\ frames' = IF f.todo = {k} THEN others
                        ELSE Append(others, [f EXCEPT !.todo = @ \ {k}])
           /\ heap' = Add(heap, f.self, k, heap[f.top].hash[k])
  /\ before' = IF frames' = <<>> THEN <<>> ELSE before
  /\ Same /\ UNCHANGED <<call, calls, fault>>

(* The function handed to ForEachKeyed, for one entry.  An array laid on an *)
(* array is appended to what GetArr of the hash returns, which is nil, and  *)
(* given to SetArr of the hash, which does nothing.                         *)
OverlayEntry ==
  /\ frames # <<>>
  /\ \E f \in {frames[Len(frames)]} : \E k \in f.todo :
       LET ontopVal == heap[f.top].hash[k]
           curVal   == Get(f.self, k)
           both(t)  == curVal # nil /\ heap[curVal].type = t /\ heap[ontopVal].type = t
           others   == SubSeq(frames, 1, Len(frames) - 1)
           left     == IF f.todo = {k} THEN others
                       ELSE Append(others, [f EXCEPT !.todo = @ \ {k}])
       IN  \/ both("hash") /\ frames' = left \o Frame(curVal, ontopVal) /\ UNCHANGED heap
           \/ both("arr")  /\ frames' = left /\ UNCHANGED heap
           \/ /\ ~ both("hash") /\ ~ both("arr")
              /\ frames' = left
              /\ heap' = Add(heap, f.self, k, ontopVal)
  /\ before' = IF frames' = <<>> THEN <<>> ELSE before
  /\ Same /\ UNCHANGED <<call, calls, fault>>

NodesNext ==
  \/ \E r, q \in Roots : r # q /\ Overlay(r, q)
  \/ \E r \in Roots, k \in Paths : Del(r, k)
  \/ OverlayEntry

(* A parse, and then what the caller does with the roots.                  *)
AllInit == Init /\ NodesInit

AllNext == (Next /\ UNCHANGED nodeVars) \/ NodesNext

NodesSpec == AllInit /\ [][AllNext]_<<vars, nodeVars>> /\ WF_vars(Step)

-----------------------------------------------------------------------------
(* While Overlay runs its callers see nothing of it.                       *)
Path == INSTANCE PathTree WITH
  trees <- IF pc # "Returned" THEN <<>> ELSE IF frames # <<>> THEN Values(before) ELSE Values(heap),
  made  <- IF frames # <<>> THEN calls - 1 ELSE calls

(* However the keys of the hashes are visited, and although a base shares   *)
(* nodes with what was laid on it before, Overlay comes to a merge of the   *)
(* two values, leaves what it lays on top as it was, and Del takes away one *)
(* entry, or panics where the path leads nowhere.                           *)
ImplementsPaths == Path!Spec
=============================================================================
