-------------------------------- MODULE UjStr -------------------------------
(***************************************************************************)
(* uj_node__str of c/ujson.c for a hash: the calls of c/sds.c (Sds) by     *)
(* which the hash is written, and whether the variable that holds the      *)
(* string points to its block.  A call that needs another block frees the  *)
(* old one and returns the new; realloc may also leave it where it is.     *)
(***************************************************************************)
EXTENDS Sds

CONSTANTS Keys, Values   \* the texts of keys, and of values as uj_node__str gives them: no zeros

VARIABLES
  entries,   \* the entries not written yet: [key, val], the list of keys
  pc,        \* "Indent", "Key", "Value", "Separator", "Close", "Done"
  current    \* whether str points to the block of the string

strVars == <<s, call, rest, entries, pc, current>>

Spaces(depth) == [k \in 1 .. 2 * depth |-> 32]

(* "%p": between quotes, with a colon.                                     *)
KeyFormat(key) == [len |-> 5, items |-> <<<<34>>, key, <<34>>, <<58>>>>]

(* What is certain, and what is possible, of the block after a call.       *)
MustMove(x, y) == x.type # y.type
MayMove(x, y)  == x.room # y.room

(* str = sdscat( str, t ).                                                 *)
Sdscat(t) == s' = CatLen(s, t) /\ UNCHANGED <<call, rest, current>>

(* sdscat( str, t ), its result dropped.                                   *)
SdscatDropped(t) ==
  /\ s' = CatLen(s, t) /\ UNCHANGED <<call, rest>>
  /\ current' \in {b \in BOOLEAN : /\ MustMove(s, s') => ~ b
                                   /\ ~ MustMove(s, s') /\ ~ MayMove(s, s') => b}

At(label, next) == current /\ pc = label /\ pc' = next

-----------------------------------------------------------------------------
(* The string is made, and the brace opened.                               *)
StrInit ==
  /\ entries \in UNION {[1 .. n -> [key : Keys, val : Values]] : n \in 1 .. 2}
  /\ s = CatLen(NewLen(<<>>), <<123, 10>>)
  /\ call = [op |-> "new", arg |-> <<>>] /\ rest = <<>>
  /\ pc = "Indent" /\ current = TRUE

(* add_indent at depth one.                                                *)
Indent == At("Indent", "Key") /\ Sdscat(Spaces(1)) /\ UNCHANGED entries

Key ==
  /\ At("Key", "Value") /\ CatFmt(KeyFormat(Head(entries).key))
  /\ UNCHANGED <<entries, current>>

KeyItem == current /\ FmtItem /\ UNCHANGED <<entries, pc, current>>

Value ==
  /\ rest = <<>>
  /\ At("Value", "Separator") /\ Sdscat(Head(entries).val) /\ UNCHANGED entries

(* A comma behind every entry but the last, and a newline.                 *)
Separator ==
  /\ entries' = Tail(entries)
  /\ At("Separator", IF entries' = <<>> THEN "Close" ELSE "Indent")
  /\ SdscatDropped(IF entries' = <<>> THEN <<10>> ELSE <<44, 10>>)

(* No indent for the closing brace, the depth being one.                   *)
Close == At("Close", "Done") /\ Sdscat(<<125, 10>>) /\ UNCHANGED entries

Returned == (pc = "Done" \/ ~ current) /\ UNCHANGED strVars

StrNext == Indent \/ Key \/ KeyItem \/ Value \/ Separator \/ Close \/ Returned

StrSpec == StrInit /\ [][StrNext]_strVars

-----------------------------------------------------------------------------
(* sds.c says of every call that appends: "the passed sds string is no     *)
(* longer valid and all the references must be substituted with the new    *)
(* pointer returned by the call".  str always points to the string.        *)
ReferencesSubstituted == current
=============================================================================
