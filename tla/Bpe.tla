-------------------------------- MODULE Bpe ---------------------------------
(***************************************************************************)
(* Tokenizer::bpe_encode_pretoken of src/tokenizer.cpp: byte-pair encoding *)
(* of one pretoken with a linked list of symbols over the encoded string   *)
(* and a heap of mergeable pairs.  A merge leaves the entries it made      *)
(* invalid in the heap; they are recognised, and dropped, when popped.     *)
(*                                                                         *)
(* A text is a sequence of characters of the byte-level alphabet, in which *)
(* no space occurs, so the key "left right" of a rule is a pair of texts.  *)
(***************************************************************************)
EXTENDS Integers, Sequences, FiniteSets

CONSTANTS
  Texts,       (* Pretokens, byte-level encoded; never empty.              *)
  RuleLists,   (* merges of a tokenizer.json: pairs of texts, best first.  *)
  Vocabs       (* The texts that have a token id, in a tokenizer.json.     *)

ASSUME BpeAssumption ==
  /\ \A pretoken \in Texts :
       /\ Len(pretoken) \in Nat \ {0}
       /\ pretoken \in Seq({pretoken[k] : k \in 1 .. Len(pretoken)})
  /\ \A list \in RuleLists : DOMAIN list \subseteq Nat

VARIABLES
  text,          (* encoded                                                *)
  merges,        (* merge_rank_, as the list it was read from              *)
  vocab,         (* the keys of token_to_id_                               *)
  ignoreMerges,  (* ignore_merges_                                         *)
  symbols,       (* symbols[k] = [offset, length, prev, next]              *)
  queue,         (* the heap of Bigrams                                    *)
  index,         (* the cursor of the final walk                           *)
  output,        (* *out: the texts of the tokens pushed back              *)
  phase          (* "start", "merging", "emitting", "done" or "failed"     *)

params == <<text, merges, vocab, ignoreMerges>>
vars   == <<params, symbols, queue, index, output, phase>>

None == -1

Init ==
  /\ text \in Texts
  /\ merges \in RuleLists
  /\ vocab \in Vocabs
  /\ ignoreMerges \in BOOLEAN
  /\ symbols = <<>>
  /\ queue = {}
  /\ index = 0
  /\ output = <<>>
  /\ phase = "start"

-----------------------------------------------------------------------------
(* The rank of a rule is its place in the list; emplace keeps the first of *)
(* a rule listed twice.                                                    *)
Ranked(left, right) == {r \in DOMAIN merges : merges[r] = <<left, right>>}
LastRank(left, right) == CHOOSE r \in Ranked(left, right) :
                           \A other \in Ranked(left, right) : r >= other  (* mutant *)
Rank(left, right)   == CHOOSE r \in Ranked(left, right) :
                         \A other \in Ranked(left, right) : r <= other

PieceOf(s) == SubSeq(text, s.offset + 1, s.offset + s.length)

Index == 0 .. Len(text) - 1

(* The symbols before the first merge: one per character.                  *)
Characters ==
  [k \in Index |-> [offset |-> k, length |-> 1, prev |-> k - 1,
                    next |-> IF k + 1 \in Index THEN k + 1 ELSE None]]

(* push_pair: the heap entry for two symbols, if there is one.             *)
PairOf(syms, left, right) ==
  IF \/ left = None \/ right = None
     \/ syms[left].length = 0 \/ syms[right].length = 0
     \/ Ranked(PieceOf(syms[left]), PieceOf(syms[right])) = {}
    THEN {}
    ELSE {[left |-> left, right |-> right,
           rank |-> Rank(PieceOf(syms[left]), PieceOf(syms[right])),
           mergedLength |-> syms[left].length + syms[right].length]}

(* BigramWorseThan: the heap pops the lowest rank, the leftmost of equals. *)
RightmostFirst(a, b) == \/ a.rank > b.rank       (* mutant: ties to the right *)
                        \/ a.rank = b.rank /\ a.left < b.left
WorseThan(a, b) == \/ a.rank > b.rank
                   \/ a.rank = b.rank /\ a.left > b.left

IsTop(b) == b \in queue /\ \A other \in queue : ~WorseThan(b, other)

(* Does an entry still describe two neighbours as they were when queued?   *)
Fresh(b) ==
  /\ symbols[b.left].length # 0 /\ symbols[b.right].length # 0
  /\ symbols[b.left].next = b.right
  /\ symbols[b.left].length + symbols[b.right].length = b.mergedLength

(* The symbol list after left has absorbed right.                          *)
AbsorbedOneWay(left, right) ==           (* mutant: the back link is stale  *)
  [symbols EXCEPT
     ![left].length  = @ + symbols[right].length,
     ![left].next    = symbols[right].next,
     ![right].length = 0]
Absorbed(left, right) ==
  [k \in Index |->
     CASE k = left  -> [symbols[k] EXCEPT !.length = @ + symbols[right].length,
                                          !.next   = symbols[right].next]
       [] k = right -> [symbols[k] EXCEPT !.length = 0]
       [] k = symbols[right].next -> [symbols[k] EXCEPT !.prev = left]
       [] OTHER     -> symbols[k]]

(* The pairs a merge creates.                                              *)
NewPairsRight(syms, left) == PairOf(syms, left, syms[left].next)  (* mutant *)
NewPairs(syms, left) ==
  PairOf(syms, syms[left].prev, left) \cup PairOf(syms, left, syms[left].next)

-----------------------------------------------------------------------------
(* A pretoken that is a vocabulary entry is emitted as that entry.         *)
WholeEntry == ignoreMerges /\ text \in vocab

EmitWhole ==
  /\ phase = "start" /\ WholeEntry
  /\ output' = <<text>>
  /\ phase' = "done"
  /\ UNCHANGED <<params, symbols, queue, index>>

Split ==
  /\ phase = "start" /\ ~WholeEntry
  /\ symbols' = Characters
  /\ queue' = UNION {PairOf(Characters, k, k + 1) : k \in 0 .. Len(text) - 2}
  /\ phase' = "merging"
  /\ UNCHANGED <<params, index, output>>

SkipKept(top) == queue' = queue  (* mutant: a stale entry is not removed   *)
SkipStale(top) ==
  queue' = queue \ {top}

(* One iteration of the merge loop.                                        *)
Skip ==
  /\ phase = "merging"
  /\ \E top \in queue : IsTop(top) /\ ~Fresh(top) /\ SkipStale(top)
  /\ UNCHANGED <<params, symbols, index, output, phase>>

Merge ==
  /\ phase = "merging"
  /\ \E top \in queue :
       /\ IsTop(top) /\ Fresh(top)
       /\ symbols' = Absorbed(top.left, top.right)
       /\ queue' = (queue \ {top}) \cup NewPairs(Absorbed(top.left, top.right), top.left)
  /\ UNCHANGED <<params, index, output, phase>>

MergesDone ==
  /\ phase = "merging" /\ queue = {}
  /\ phase' = "emitting"
  /\ UNCHANGED <<params, symbols, queue, index, output>>

(* One iteration of the final walk: the next piece, or LCR_CHECK throws.   *)
Emit ==
  /\ phase = "emitting" /\ index # None
  /\ PieceOf(symbols[index]) \in vocab
  /\ output' = Append(output, PieceOf(symbols[index]))
  /\ index' = symbols[index].next
  /\ UNCHANGED <<params, symbols, queue, phase>>

PieceUnknown ==
  /\ phase = "emitting" /\ index # None
  /\ PieceOf(symbols[index]) \notin vocab
  /\ phase' = "failed"
  /\ UNCHANGED <<params, symbols, queue, index, output>>

Return ==
  /\ phase = "emitting" /\ index = None
  /\ phase' = "done"
  /\ UNCHANGED <<params, symbols, queue, index, output>>

Next == \/ EmitWhole \/ Split \/ Skip \/ Merge \/ MergesDone
        \/ Emit \/ PieceUnknown \/ Return

Spec     == Init /\ [][Next]_vars
FairSpec == Spec /\ WF_vars(Next)

-----------------------------------------------------------------------------
Live == {k \in DOMAIN symbols : symbols[k].length > 0}

(* Type invariant: symbols and heap entries stay within the pretoken.      *)
TypeOK ==
  /\ symbols = <<>> \/ symbols \in
       [Index -> [offset : Index, length : 0 .. Len(text),
                  prev : Index \cup {None}, next : Index \cup {None}]]
  /\ queue \subseteq [left : Index, right : Index, rank : DOMAIN merges,
                      mergedLength : 2 .. Len(text)]
  /\ index \in Index \cup {None}
  /\ \A k \in DOMAIN output : output[k] \in vocab
  /\ phase \in {"start", "merging", "emitting", "done", "failed"}

(* The live symbols tile the pretoken, and the links of the list are each  *)
(* other's inverse: tokenizer.cpp:441 to 444 neither loses nor repeats a   *)
(* byte, whatever the order of the merges.                                 *)
ChainTilesText ==
  \A k \in Live :
    LET after == symbols[k].offset + symbols[k].length
    IN  IF symbols[k].next = None THEN after = Len(text)
        ELSE /\ symbols[k].next \in Live
             /\ symbols[symbols[k].next].prev = k
             /\ symbols[symbols[k].next].offset = after

(* The heap entries that pass the three tests of tokenizer.cpp:437 to 439  *)
(* are exactly the pairs of neighbours that have a rank, with the rank and *)
(* length they have now: dropping an entry when it is popped never drops a *)
(* merge still to be done, and no merge is done for a pair that is gone.   *)
LivePairsQueued ==
  phase = "merging" =>
    {b \in queue : Fresh(b)} = UNION {PairOf(symbols, k, symbols[k].next) : k \in Live}

(* Encoding a pretoken ends.                                               *)
EncodingEnds == <>(phase \in {"done", "failed"})

-----------------------------------------------------------------------------
(* The pieces of the list, from left to right.                             *)
PiecesFrom[k \in Index \cup {None}] ==
  IF k = None THEN <<>> ELSE <<PieceOf(symbols[k])>> \o PiecesFrom[symbols[k].next]

Pieces ==
  IF symbols = <<>> THEN [k \in 1 .. Len(text) |-> <<text[k]>>] ELSE PiecesFrom[0]

(* What the call has come to, as BestPair says it.                         *)
Result == CASE phase = "done"   -> output
            [] phase = "failed" -> << <<>> >>
            [] OTHER            -> <<>>

(* The heap implements "merge the best pair, repeat".                      *)
Best == INSTANCE BestPair WITH pieces <- Pieces, result <- Result
ImplementsBestPair == Best!Spec

-----------------------------------------------------------------------------
(* A rule joins texts that all rules producing them precede: lists learned *)
(* by training, and lists derived from token ranks as Llama 3's are.       *)
Product(rule) == rule[1] \o rule[2]
Trained(list) ==
  \A q, r \in DOMAIN list : Product(list[q]) \in {list[r][1], list[r][2]} => q < r

(* The reference loop of GPT-2: each round merges every occurrence of the  *)
(* best pair, from left to right.                                          *)
JoinAll(pieces, rule) ==
  LET from[i \in 1 .. Len(pieces) + 1] ==
        IF i > Len(pieces) THEN <<>>
        ELSE IF i < Len(pieces) /\ <<pieces[i], pieces[i + 1]>> = rule
          THEN <<Product(rule)>> \o from[i + 2]
          ELSE <<pieces[i]>> \o from[i + 1]
  IN  from[1]

RanksOf(list, pieces) ==
  {r \in DOMAIN list : \E k \in 1 .. Len(pieces) - 1 : list[r] = <<pieces[k], pieces[k + 1]>>}

BestRank(list, pieces) ==
  CHOOSE r \in RanksOf(list, pieces) : \A other \in RanksOf(list, pieces) : r <= other

Rounds(list, chars) ==
  LET loop[pieces \in Seq(Seq(chars))] ==
        IF RanksOf(list, pieces) = {} THEN pieces
        ELSE loop[JoinAll(pieces, list[BestRank(list, pieces)])]
  IN  loop

Chars == {text[k] : k \in 1 .. Len(text)}

(* tokenizer.cpp:345: merging one best pair at a time ends where the       *)
(* reference loop ends, on lists a trainer can produce.                    *)
MatchesRounds ==
  phase = "done" /\ ~WholeEntry /\ Trained(merges) =>
    output = Rounds(merges, Chars)[[k \in 1 .. Len(text) |-> <<text[k]>>]]

=============================================================================
