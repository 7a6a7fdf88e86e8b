--------------------------- MODULE ProbTxn_proofs ---------------------------
(***************************************************************************)
(* Proofs about ProbTxn, for every structure, every log and any number of  *)
(* crashes.                                                                *)
(***************************************************************************)
EXTENDS ProbTxn, WellFoundedInduction, TLAPS

(* What the journal asks of a structure whose contents are Contents: a     *)
(* mutation it accepts is a sequence of images that leave the token alone  *)
(* and lead from one content to another.                                   *)
Accepted(plan) == plan.ok /\ plan.commits

Images(images) ==
    /\ \E I : images \in Seq(I)
    /\ \A k \in 1..Len(images) : TokenCell \notin DOMAIN images[k]

Structure(Contents) ==
    /\ Fresh \in Contents
    /\ \A f \in Contents : f = [c \in Cells |-> f[c]]
    /\ \A f, s \in Contents, l \in Logs : \A p \in 1..Len(l) :
          LET plan == Plan(f, l[p], s)
          IN  Accepted(plan) => Images(plan.images) /\ Overlay(f, plan.images) \in Contents
    /\ \A f \in Contents : \A l : \A e \in DirectEntries(l) :
          LET plan == Direct(f, e)
          IN  plan.ok => Images(plan.images) /\ Overlay(f, plan.images) \in Contents
    /\ \A s \in Contents, l \in Logs : \A p \in 1..Len(l) : SourceAfter(s, l[p]) \in Contents
    /\ \A a, i, r : [token |-> a, images |-> i, result |-> r] # Nil

-------------------------------------------------------------------------------
(* Writing images over a content. *)

\* The first w images that write cell c, and the last of them.
At(images, w, c) == {k \in 1..w : c \in DOMAIN images[k]}
LastOf(S) == CHOOSE k \in S : \A j \in S : j <= k

\* A cell holds what the last image to write it says.
LEMMA OverlayCell ==
    ASSUME NEW content, NEW images, NEW c \in DOMAIN content
    PROVE  Overlay(content, images)[c] =
              IF At(images, Len(images), c) = {} THEN content[c]
              ELSE images[LastOf(At(images, Len(images), c))][c]
BY Zenon DEF Overlay, At, LastOf

\* Images add no cell to a file.
LEMMA OverlayDomain ==
    ASSUME NEW content, NEW images
    PROVE  DOMAIN Overlay(content, images) = DOMAIN content
BY Zenon DEF Overlay

\* One image replaces its own cells.
LEMMA OverlayOne ==
    ASSUME NEW content, NEW image, NEW c \in DOMAIN content
    PROVE  Overlay(content, <<image>>)[c] = IF c \in DOMAIN image THEN image[c] ELSE content[c]
<1> DEFINE one == <<image>>
<1>1. Len(one) = 1 /\ one[1] = image
  BY Zenon
<1>2. Overlay(content, one)[c] = IF At(one, Len(one), c) = {} THEN content[c]
                                 ELSE one[LastOf(At(one, Len(one), c))][c]
  BY ZenonT(40), OverlayCell
<1> HIDE DEF one
<1>3. CASE c \in DOMAIN image
  <2>1. At(one, Len(one), c) = {1}
    BY <1>1, <1>3 DEF At
  <2>2. LastOf({1}) = 1
    BY DEF LastOf
  <2> QED
    BY Zenon, <1>1, <1>2, <1>3, <2>1, <2>2 DEF one
<1>4. CASE c \notin DOMAIN image
  <2>1. At(one, Len(one), c) = {}
    BY <1>1, <1>4 DEF At
  <2> QED
    BY Zenon, <1>2, <1>4, <2>1 DEF one
<1> QED
  BY Zenon, <1>3, <1>4

\* Of the images that write a cell there is a last one.
LEMMA LastExists ==
    ASSUME NEW n \in Nat, NEW S \in SUBSET (1..n), S # {}
    PROVE  LastOf(S) \in S /\ \A j \in S : j <= LastOf(S)
<1> DEFINE R == {ss \in Nat \X Nat : ss[1] < ss[2]}
           T == {n - k : k \in S}
<1>1. T \subseteq Nat /\ T # {}
  <2>1. \A k \in S : k \in Nat /\ k <= n
    OBVIOUS
  <2>2. \A k \in S : n - k \in Nat
    BY <2>1
  <2> QED
    BY Zenon, <2>2
<1>2. IsWellFoundedOn(R, Nat)
  BY Zenon, NatLessThanWellFounded DEF OpToRel
<1>3. PICK x \in T : \A y \in T : ~(<<y, x>> \in R)
  <2> HIDE DEF R, T
  <2> QED
    BY Zenon, <1>1, <1>2, WFMin
<1>4. PICK k \in S : x = n - k
  BY Zenon, <1>3
<1>5. \A y \in T : y \in Nat /\ x \in Nat /\ ~(y < x)
  BY Zenon, <1>1, <1>3
<1>6. \A j \in S : n - j \in T
  BY Zenon
<1> HIDE DEF T
<1>7. \A j \in S : j \in Nat /\ k \in Nat /\ ~(n - j < n - k)
  BY <1>4, <1>5, <1>6
<1>8. \A j \in S : j <= k
  BY <1>7
<1> QED
  BY Zenon, <1>8 DEF LastOf

\* The newest image is the last to write its cells.
LEMMA LastNew ==
    ASSUME NEW images, NEW w \in Nat, NEW c, c \in DOMAIN images[w + 1]
    PROVE  At(images, w + 1, c) # {} /\ LastOf(At(images, w + 1, c)) = w + 1
<1> DEFINE S == At(images, w + 1, c)
<1>1. w + 1 \in S /\ \A k \in S : k \in Nat /\ k <= w + 1
  BY DEF At
<1> HIDE DEF S
<1>2. \A k \in S : (\A j \in S : j <= k) => k = w + 1
  BY <1>1
<1>3. LastOf(S) = w + 1
  BY Zenon, <1>1, <1>2 DEF LastOf
<1> QED
  BY Zenon, <1>1, <1>3 DEF S

\* An image that does not write a cell changes nothing for it.
LEMMA LastSame ==
    ASSUME NEW images, NEW w \in Nat, NEW c, c \notin DOMAIN images[w + 1]
    PROVE  At(images, w + 1, c) = At(images, w, c)
BY DEF At

\* Writing a part of one of the images first makes no difference to writing
\* them all: what the part changes is written again.
LEMMA OverlayAgain ==
    ASSUME NEW content, NEW images, NEW k \in 1..Len(images), NEW part,
           DOMAIN part \subseteq DOMAIN images[k], NEW c \in DOMAIN content
    PROVE  Overlay(Overlay(content, <<part>>), images)[c] = Overlay(content, images)[c]
<1> DEFINE new == Overlay(content, <<part>>)
<1>1. c \in DOMAIN new
  BY Zenon, OverlayDomain
<1>2. new[c] = IF c \in DOMAIN part THEN part[c] ELSE content[c]
  BY OverlayOne
<1> HIDE DEF new
<1>3. c \in DOMAIN part => k \in At(images, Len(images), c)
  BY Zenon DEF At
<1>4. At(images, Len(images), c) = {} => new[c] = content[c]
  BY Zenon, <1>2, <1>3
<1>5. Overlay(new, images)[c] = Overlay(content, images)[c]
  BY <1>1, <1>4, OverlayCell
<1> QED
  BY Zenon, <1>5 DEF new

-------------------------------------------------------------------------------
(* The inductive invariant. *)

Receipt == read_transaction_if_present

\* The receipt describes a mutation the file does not show completely yet.
Unfinished == Receipt # Nil /\ Before(read_token(file), Receipt.token)

\* A receipt as commit or compaction writes it: images of the structure, then
\* the one of the token.
Sound(t) ==
    /\ t.token \in Nat \X Nat
    /\ Len(t.images) \in Nat
    /\ Len(t.images) > 0 =>
          /\ t.images[Len(t.images)] = [c \in {TokenCell} |-> t.token]
          /\ \A k \in 1..(Len(t.images) - 1) : TokenCell \notin DOMAIN t.images[k]

\* The lock is held for an entry of the log.
InCall ==
    \/ pc \in {"decide", "commit", "answer"}
    \/ pc \in {"recover", "apply", "settle"} /\ resume # "idle"

Steps ==
    {"idle", "recover", "apply", "settle", "decide", "commit", "answer", "boundary",
     "publish_file", "publish_receipt", "boot", "blocked"}

Shape(Contents) ==
    /\ mode \in {"raft", "local", "direct"} /\ pc \in Steps
    /\ home \in {"none", "pending", "final"}
    /\ DOMAIN file = Cells \cup {TokenCell}
    /\ source \in Contents /\ ideal \in Contents
    /\ mode = "direct" =>
          /\ pc = "idle" /\ receipt = Nil /\ preceipt = Nil
          /\ cursor = Len(log) + 1 /\ \E S : log \in Seq(S)
    /\ mode # "direct" =>
          log \in Logs /\ cursor \in Nat \ {0} /\ read_token(file) \in Nat \X Nat

\* Where the receipts are: at the path of the file, and elsewhere only while a
\* publication is between its two renames.
Paths ==
    /\ home = "none" => receipt = Nil /\ preceipt = Nil
    /\ home = "pending" => receipt = Nil
    /\ home = "final" /\ preceipt # Nil => receipt = Nil /\ pc \in {"publish_receipt", "boot"}
    /\ pc = "publish_file" => home = "pending"
    /\ pc = "publish_receipt" => home = "final" /\ receipt = Nil
    /\ InCall => cursor <= Len(log) /\ home # "none"
    /\ pc \in {"apply", "settle"} => home # "none"
    /\ pc = "recover" => resume \in {"decide", "idle"}
    /\ pc \in {"apply", "settle"} => resume \in {"decide", "idle", "answer"}
    /\ pc \in {"commit", "answer"} => resume = "answer"

\* What the transaction in memory has to do with the receipt.
Receipts(Contents) ==
    /\ receipt # Nil => Sound(receipt)
    /\ preceipt # Nil => Sound(preceipt)
    /\ pc \in {"apply", "settle"} => Receipt # Nil /\ txn = Receipt
    /\ pc = "commit" =>
          /\ txn # Nil /\ Sound(txn) /\ Len(txn.images) > 0
          /\ Before(read_token(file), txn.token)
          /\ Overlay(ideal, txn.images) \in Contents

\* The first w images of t are in the file.
Shown(t, w) ==
    \A c \in Cells :
        At(t.images, w, c) # {} => file[c] = t.images[LastOf(At(t.images, w, c))][c]

Journal ==
    /\ pc \notin {"boot", "recover", "apply", "blocked"} => ~Unfinished
    /\ Unfinished => Len(Receipt.images) > 0 /\ Body(Overlay(file, Receipt.images)) = ideal
    /\ ~Unfinished => Body(file) = ideal
    /\ pc = "apply" =>
          /\ written \in 0..Len(txn.images) /\ Shown(txn, written)
          /\ written < Len(txn.images) <=> Unfinished

IInv(Contents) == Shape(Contents) /\ Paths /\ Receipts(Contents) /\ Journal

\* A step that leaves the files alone leaves the receipt and what the file shows
\* of it alone.
LEMMA SameFiles ==
    ASSUME UNCHANGED fileVars
    PROVE  /\ UNCHANGED <<home, file, receipt, preceipt>>
           /\ Receipt' = Receipt /\ read_token(file)' = read_token(file)
           /\ Unfinished' <=> Unfinished
BY Zenon DEF fileVars, Receipt, read_transaction_if_present, read_token, Unfinished

\* The image of the token is not one of the structure's cells.
LEMMA TokenImage ==
    ASSUME NEW images, Len(images) \in Nat, NEW all, Len(all) = Len(images) + 1,
           \A k \in 1..Len(images) : all[k] = images[k], DOMAIN all[Len(all)] = {TokenCell},
           NEW content, DOMAIN content = Cells
    PROVE  Overlay(content, all) = Overlay(content, images)
<1>1. DOMAIN all[Len(all)] = {TokenCell}
  BY Zenon
<1>2. /\ Len(all) = Len(images) + 1 /\ Len(images) \in Nat
      /\ \A k \in 1..Len(images) : all[k] = images[k]
  BY Zenon
<1>3. ASSUME NEW c \in Cells
      PROVE  Overlay(content, all)[c] = Overlay(content, images)[c]
  <2>1. At(all, Len(all), c) = At(images, Len(images), c)
    <3>1. c \notin DOMAIN all[Len(images) + 1]
      BY Zenon, <1>1, <1>2, CellsAssumption
    <3>2. At(all, Len(all), c) = At(all, Len(images), c)
      BY Zenon, <1>2, <3>1, LastSame
    <3> QED
      BY Zenon, <1>2, <3>2 DEF At
  <2>2. CASE At(images, Len(images), c) = {}
    BY <2>1, <2>2, OverlayCell
  <2>3. CASE At(images, Len(images), c) # {}
    <3> DEFINE S == At(images, Len(images), c)
    <3>1. Overlay(content, all)[c] = all[LastOf(S)][c]
      BY <2>1, <2>3, OverlayCell
    <3>2. Overlay(content, images)[c] = images[LastOf(S)][c]
      BY <2>3, OverlayCell
    <3>3. LastOf(S) \in 1..Len(images)
      <4>1. S \in SUBSET (1..Len(images))
        BY Zenon DEF At
      <4> HIDE DEF S
      <4>2. S # {}
        BY Zenon, <2>3 DEF S
      <4> QED
        BY Zenon, <1>2, <4>1, <4>2, LastExists
    <3> HIDE DEF S
    <3> QED
      BY Zenon, <1>2, <3>1, <3>2, <3>3
  <2> QED
    BY Zenon, <2>2, <2>3
<1> QED
  BY Zenon, <1>3 DEF Overlay

\* A step that changes neither the file nor the receipt, and is not the start of
\* writing one, keeps what the journal promises.
LEMMA JournalKept ==
    ASSUME Journal, UNCHANGED <<file, ideal>>, Receipt' = Receipt, pc' # "apply",
           pc' \in {"boot", "recover", "blocked"} \/ ~Unfinished
    PROVE  Journal'
<1>1. /\ Unfinished' <=> Unfinished /\ read_token(file)' = read_token(file)
      /\ Body(file)' = Body(file)
      /\ Body(Overlay(file, Receipt.images))' = Body(Overlay(file, Receipt.images))
  BY DEF Unfinished, read_token, Body, Overlay
<1> QED
  BY Zenon, <1>1 DEF Journal

\* A step that leaves both receipts where they are and has none in memory.
LEMMA ReceiptsKept ==
    ASSUME NEW Contents, Receipts(Contents), UNCHANGED <<receipt, preceipt>>,
           pc' \notin {"apply", "settle", "commit"}
    PROVE  Receipts(Contents)'
BY Zenon DEF Receipts, Sound

\* In the initial state there is no receipt and the file is as created.
LEMMA InitInv ==
    ASSUME NEW Contents, Structure(Contents), Init
    PROVE  IInv(Contents)
<1>1. /\ Receipt = Nil /\ ~Unfinished
  BY Zenon DEF Init, Receipt, read_transaction_if_present, Unfinished
<1>2. Fresh \in Contents /\ Fresh = [c \in Cells |-> Fresh[c]]
  BY Zenon DEF Structure
<1>3. /\ DOMAIN file = Cells \cup {TokenCell} /\ read_token(file) = ZERO
      /\ Body(file) = Fresh
  BY Zenon, <1>2, CellsAssumption DEF Init, read_token, Body
<1>4. Shape(Contents)
  <2>1. ZERO \in Nat \X Nat
    BY Zenon DEF ZERO
  <2>2. mode = "direct" => Len(log) = 0 /\ log \in Seq({})
    BY DEF Init
  <2> QED
    BY <1>2, <1>3, <2>1, <2>2 DEF Init, Shape, Steps
<1>5. Paths
  BY Zenon DEF Init, Paths, InCall
<1>6. Receipts(Contents)
  BY Zenon DEF Init, Receipts
<1>7. Journal
  BY Zenon, <1>1, <1>3 DEF Init, Journal
<1> QED
  BY Zenon, <1>4, <1>5, <1>6, <1>7 DEF IInv

\* An entry opens the file.
LEMMA CallInv ==
    ASSUME NEW Contents, IInv(Contents), Call
    PROVE  IInv(Contents)'
<1> USE DEF IInv
<1>1. Receipt' = Receipt
  BY Zenon DEF Call, Receipt, read_transaction_if_present, Paths
<1>2. Shape(Contents)'
  BY DEF Call, Shape, Steps, Active, read_token, ghosts
<1>3. Paths'
  BY Zenon DEF Call, Paths, Shape, InCall, Active
<1>4. Receipts(Contents)'
  BY Zenon, ReceiptsKept DEF Call
<1>5. Journal'
  BY Zenon, <1>1, JournalKept DEF Call, ghosts
<1> QED
  BY Zenon, <1>2, <1>3, <1>4, <1>5

\* An entry for the other sketch.
LEMMA CallSourceInv ==
    ASSUME NEW Contents, Structure(Contents), IInv(Contents), CallSource
    PROVE  IInv(Contents)'
<1> USE DEF IInv
<1>1. Receipt' = Receipt
  BY Zenon DEF CallSource, Receipt, read_transaction_if_present, fileVars
<1>2. Shape(Contents)'
  <2>1. mode # "direct" /\ log \in Logs /\ cursor \in 1..Len(log) /\ cursor + 1 \in Nat \ {0}
    BY LogsAssumption DEF CallSource, Active, Shape
  <2>2. SourceAfter(source, entry) \in Contents
    BY Zenon, <2>1 DEF Structure, Shape, entry
  <2>3. source' \in Contents
    BY Zenon, <2>2 DEF CallSource, Shape
  <2> QED
    BY Zenon, <2>1, <2>3 DEF CallSource, Shape, Steps, read_token, ghosts, fileVars
<1>3. Paths'
  BY Zenon DEF CallSource, Paths, InCall, fileVars
<1>4. Receipts(Contents)'
  BY Zenon, ReceiptsKept DEF CallSource, fileVars
<1>5. Journal'
  <2>1. ~Unfinished
    BY Zenon DEF Journal, CallSource
  <2> QED
    BY Zenon, <1>1, <2>1, JournalKept DEF CallSource, ghosts, fileVars
<1> QED
  BY Zenon, <1>2, <1>3, <1>4, <1>5

\* A token is not before itself.
LEMMA BeforeIrreflexive ==
    ASSUME NEW t \in Nat \X Nat
    PROVE  ~Before(t, t)
BY DEF Before

\* The receipt, when there is one, is sound.
LEMMA ReceiptSound ==
    ASSUME NEW Contents, Receipts(Contents), Receipt # Nil
    PROVE  Sound(Receipt)
BY Zenon DEF Receipts, Receipt, read_transaction_if_present

\* Recovery starts writing an unfinished receipt from its first image.
LEMMA RecoverInv ==
    ASSUME NEW Contents, IInv(Contents), recover
    PROVE  IInv(Contents)'
<1> USE DEF IInv
<1>0. UNCHANGED fileVars /\ UNCHANGED <<log, mode, cursor, source, resume, ideal>>
  BY Zenon DEF recover, ghosts
<1>1. /\ UNCHANGED <<home, file, receipt, preceipt>>
      /\ Receipt' = Receipt /\ read_token(file)' = read_token(file)
      /\ Unfinished' <=> Unfinished
  BY Zenon, <1>0, SameFiles
<1>2. CASE Receipt = Nil
  <2>1. pc' = resume /\ resume \in {"decide", "idle"} /\ UNCHANGED <<txn, written>>
    BY Zenon, <1>2 DEF recover, Receipt, Paths
  <2>2. Shape(Contents)'
    BY Zenon, <1>0, <1>1, <2>1 DEF Shape, Steps, recover
  <2>3. Paths'
    BY Zenon, <1>0, <1>1, <2>1 DEF Paths, InCall, recover
  <2>4. Receipts(Contents)'
    BY Zenon, <1>1, <2>1, ReceiptsKept
  <2>5. Journal'
    <3>1. ~Unfinished
      BY Zenon, <1>2 DEF Unfinished
    <3> QED
      BY Zenon, <1>0, <1>1, <2>1, <3>1, JournalKept
  <2> QED
    BY Zenon, <2>2, <2>3, <2>4, <2>5
<1>3. CASE Receipt # Nil
  <2>1. /\ pc' \in {"apply", "settle"} /\ txn' = Receipt
        /\ pc' = "apply" <=> Unfinished
        /\ pc' = "apply" => written' = 0
    BY Zenon, <1>3 DEF recover, Receipt, Unfinished
  <2>2. Sound(Receipt)
    BY Zenon, <1>3, ReceiptSound
  <2>3. Shape(Contents)'
    BY Zenon, <1>0, <1>1, <2>1 DEF Shape, Steps, recover
  <2>4. Paths'
    <3>1. home # "none"
      BY Zenon, <1>3 DEF Receipt, read_transaction_if_present, Paths
    <3> QED
      BY Zenon, <1>0, <1>1, <2>1, <3>1 DEF Paths, InCall, recover
  <2>5. Receipts(Contents)'
    BY Zenon, <1>1, <1>3, <2>1 DEF Receipts, Sound
  <2>6. Journal'
    <3>1. \A images, c : At(images, 0, c) = {}
      BY DEF At
    <3>2. pc' = "apply" => Shown(txn, written)'
      BY Zenon, <2>1, <3>1 DEF Shown
    <3>3. /\ Body(file)' = Body(file)
          /\ Body(Overlay(file, Receipt.images))' = Body(Overlay(file, Receipt.images))
      BY <1>1 DEF Body, Overlay
    <3>4. pc' = "apply" => Len(txn'.images) \in Nat /\ Len(txn'.images) > 0 /\ Unfinished'
      BY Zenon, <1>1, <2>1, <2>2 DEF Journal, Sound
    <3> HIDE DEF IInv
    <3>5. Journal
      BY Zenon DEF IInv
    <3>6. pc' = "apply" => /\ written' \in 0..Len(txn'.images) /\ Shown(txn, written)'
                           /\ written' < Len(txn'.images) <=> Unfinished'
      BY <2>1, <3>2, <3>4
    <3> QED
      BY Zenon, <1>0, <1>1, <2>1, <3>3, <3>5, <3>6 DEF Journal
  <2> QED
    BY Zenon, <2>3, <2>4, <2>5, <2>6
<1> QED
  BY Zenon, <1>2, <1>3

\* Writing an image, or a part of one, of the unfinished receipt.
LEMMA WriteImage ==
    ASSUME NEW Contents, Structure(Contents), IInv(Contents), pc = "apply",
           written < Len(txn.images),
           NEW part, DOMAIN part \subseteq DOMAIN txn.images[written + 1],
           \A c \in DOMAIN part : part[c] = txn.images[written + 1][c],
           written + 1 = Len(txn.images) => DOMAIN part = {TokenCell},
           file' = Overlay(file, <<part>>),
           UNCHANGED <<home, receipt, preceipt, ideal>>
    PROVE  /\ DOMAIN file' = Cells \cup {TokenCell}
           /\ read_token(file)' \in Nat \X Nat
           /\ Receipt' = Receipt /\ Receipt # Nil /\ txn = Receipt /\ Unfinished
           /\ ~Unfinished' => read_token(file)' = Receipt.token
           /\ Unfinished' <=> written + 1 < Len(txn.images)
           /\ Unfinished' => Body(Overlay(file, Receipt.images))' = ideal
           /\ ~Unfinished' => Body(file)' = ideal
<1> USE DEF IInv
<1>1. Receipt' = Receipt /\ Receipt # Nil /\ txn = Receipt
  BY Zenon DEF Receipt, read_transaction_if_present, Receipts
<1>2. Sound(txn)
  BY Zenon, <1>1, ReceiptSound
<1>3. written \in Nat /\ Len(txn.images) \in Nat /\ written + 1 \in 1..Len(txn.images)
  BY <1>2 DEF Journal, Sound
<1>4. Unfinished /\ Body(Overlay(file, txn.images)) = ideal
  BY Zenon, <1>1 DEF Journal
<1>5. DOMAIN file = Cells \cup {TokenCell} /\ DOMAIN file' = Cells \cup {TokenCell}
  BY Zenon, OverlayDomain DEF Shape
<1>6. \A c \in Cells \cup {TokenCell} :
         file'[c] = IF c \in DOMAIN part THEN part[c] ELSE file[c]
  BY Zenon, <1>5, OverlayOne
<1>7. CASE written + 1 = Len(txn.images)
  <2>1. part[TokenCell] = txn.token
    BY <1>2, <1>3, <1>7 DEF Sound
  <2>2. read_token(file)' = txn.token /\ txn.token \in Nat \X Nat
    BY Zenon, <1>2, <1>6, <1>7, <2>1 DEF read_token, Sound
  <2>3. ~Unfinished'
    BY Zenon, <1>1, <2>2, BeforeIrreflexive DEF Unfinished, read_token
  <2>4. \A c \in Cells : file'[c] = file[c]
    BY Zenon, <1>6, <1>7, CellsAssumption
  <2>5. ASSUME NEW c \in Cells PROVE Overlay(file, txn.images)[c] = file[c]
    <3>1. At(txn.images, Len(txn.images), c) = At(txn.images, written, c)
      <4>1. c \notin DOMAIN txn.images[written + 1]
        BY <1>2, <1>3, <1>7, CellsAssumption DEF Sound
      <4> QED
        BY Zenon, <1>3, <1>7, <4>1, LastSame
    <3>2. At(txn.images, written, c) # {} =>
             file[c] = txn.images[LastOf(At(txn.images, written, c))][c]
      BY Zenon DEF Journal, Shown
    <3> QED
      BY <1>5, <3>1, <3>2, OverlayCell
  <2>6. Body(file)' = ideal
    BY Zenon, <1>4, <2>4, <2>5 DEF Body
  <2> QED
    BY <1>1, <1>3, <1>4, <1>5, <1>7, <2>2, <2>3, <2>6
<1>8. CASE written + 1 # Len(txn.images)
  <2>1. TokenCell \notin DOMAIN part
    BY <1>2, <1>3, <1>8 DEF Sound
  <2>2. read_token(file)' = read_token(file)
    BY Zenon, <1>6, <2>1 DEF read_token
  <2>3. Unfinished'
    BY Zenon, <1>1, <1>4, <2>2 DEF Unfinished, read_token
  <2>4. ASSUME NEW c \in Cells
        PROVE  Overlay(file', txn.images)[c] = Overlay(file, txn.images)[c]
    <3> DEFINE w == written + 1
               im == txn.images
    <3>1. w \in 1..Len(im) /\ c \in DOMAIN file /\ DOMAIN part \subseteq DOMAIN im[w]
      BY Zenon, <1>3, <1>5
    <3> HIDE DEF w, im, IInv
    <3>2. Overlay(Overlay(file, <<part>>), im)[c] = Overlay(file, im)[c]
      BY SMTT(30), <3>1, OverlayAgain
    <3> QED
      BY Zenon, <3>2 DEF im
  <2>5. Body(Overlay(file, Receipt.images))' = ideal
    BY Zenon, <1>1, <1>4, <2>4 DEF Body
  <2>6. read_token(file)' \in Nat \X Nat
    BY Zenon, <2>2 DEF Shape
  <2> QED
    BY <1>1, <1>3, <1>4, <1>5, <1>8, <2>3, <2>5, <2>6
<1> QED
  BY Zenon, <1>7, <1>8

\* One more image of the receipt is in the file, or all are.
LEMMA ApplyInv ==
    ASSUME NEW Contents, Structure(Contents), IInv(Contents), apply_transaction
    PROVE  IInv(Contents)'
<1> USE DEF IInv
<1>1. CASE ~(written < Len(txn.images))
  <2>1. pc' = "settle" /\ UNCHANGED <<file, home, receipt, preceipt, txn, written, ideal>>
    BY Zenon, <1>1 DEF apply_transaction, ghosts
  <2>2. Receipt' = Receipt /\ ~Unfinished
    BY Zenon, <1>1, <2>1 DEF Receipt, read_transaction_if_present, Journal, apply_transaction
  <2>3. Shape(Contents)'
    BY Zenon, <2>1 DEF apply_transaction, Shape, Steps, ghosts, read_token
  <2>4. Paths'
    BY Zenon, <2>1 DEF apply_transaction, Paths, InCall
  <2>5. Receipts(Contents)'
    BY Zenon, <2>1, <2>2 DEF apply_transaction, Receipts, Sound
  <2>6. Journal'
    BY Zenon, <2>1, <2>2, JournalKept
  <2> QED
    BY Zenon, <2>3, <2>4, <2>5, <2>6
<1>2. CASE written < Len(txn.images)
  <2> DEFINE part == txn.images[written + 1]
  <2>0. /\ pc = "apply" /\ pc' = "apply" /\ written' = written + 1
        /\ file' = Overlay(file, <<part>>)
        /\ UNCHANGED <<log, mode, cursor, home, receipt, preceipt, source, txn, resume, ideal>>
    BY Zenon, <1>2 DEF apply_transaction, ghosts
  <2>1. Receipt # Nil /\ txn = Receipt /\ Sound(txn)
    BY Zenon, <2>0, ReceiptSound DEF Receipts
  <2>2. written \in Nat /\ Len(txn.images) \in Nat
    BY <2>0, <2>1 DEF Journal, Sound
  <2>3. written + 1 = Len(txn.images) => DOMAIN part = {TokenCell}
    BY <1>2, <2>1, <2>2 DEF Sound
  <2>4. /\ DOMAIN file' = Cells \cup {TokenCell}
        /\ read_token(file)' \in Nat \X Nat
        /\ Receipt' = Receipt
        /\ Unfinished' <=> written + 1 < Len(txn.images)
        /\ Unfinished' => Body(Overlay(file, Receipt.images))' = ideal
        /\ ~Unfinished' => Body(file)' = ideal
    <3> HIDE DEF part, IInv
    <3>1. /\ DOMAIN part \subseteq DOMAIN txn.images[written + 1]
          /\ \A c \in DOMAIN part : part[c] = txn.images[written + 1][c]
      BY Zenon DEF part
    <3> QED
      BY Zenon, <1>2, <2>0, <2>3, <3>1, WriteImage
  <2>5. Shape(Contents)'
    BY Zenon, <2>0, <2>4 DEF Shape, Steps
  <2>6. Paths'
    BY Zenon, <2>0 DEF Paths, InCall
  <2>7. Receipts(Contents)'
    BY <2>0, <2>1, <2>4 DEF Receipts, Sound
  <2>8. Shown(txn, written)'
    <3> DEFINE im == txn.images
    <3> SUFFICES ASSUME NEW c \in Cells, At(im, written + 1, c) # {}
                 PROVE  file'[c] = im[LastOf(At(im, written + 1, c))][c]
      BY Zenon, <2>0 DEF Shown
    <3>1. c \in DOMAIN file
      BY Zenon DEF Shape
    <3>2. file'[c] = IF c \in DOMAIN part THEN part[c] ELSE file[c]
      <4> HIDE DEF part
      <4> QED
        BY Zenon, <2>0, <3>1, OverlayOne
    <3>3. At(im, written, c) # {} => file[c] = im[LastOf(At(im, written, c))][c]
      BY Zenon, <2>0 DEF Journal, Shown
    <3>4. part = im[written + 1]
      BY Zenon
    <3> HIDE DEF part, im
    <3>5. CASE c \in DOMAIN part
      <4>1. LastOf(At(im, written + 1, c)) = written + 1
        BY Zenon, <2>2, <3>4, <3>5, LastNew
      <4> QED
        BY Zenon, <3>2, <3>4, <3>5, <4>1
    <3>6. CASE c \notin DOMAIN part
      <4>1. At(im, written + 1, c) = At(im, written, c)
        BY Zenon, <2>2, <3>4, <3>6, LastSame
      <4> QED
        BY Zenon, <3>2, <3>3, <3>6, <4>1
    <3> QED
      BY Zenon, <3>5, <3>6
  <2>9. Journal'
    <3>1. written' \in 0..Len(txn'.images)
      BY <1>2, <2>0, <2>2
    <3>2. Unfinished' => Len(Receipt'.images) > 0
      BY <1>2, <2>1, <2>2, <2>4
    <3> HIDE DEF part
    <3>3. ideal' = ideal /\ pc' = "apply" /\ Receipt' = Receipt
      BY Zenon, <2>0, <2>4
    <3>4. written' < Len(txn'.images) <=> Unfinished'
      BY Zenon, <2>0, <2>4
    <3> QED
      BY Zenon, <2>4, <2>8, <3>1, <3>2, <3>3, <3>4 DEF Journal
  <2> QED
    BY Zenon, <2>5, <2>6, <2>7, <2>9
<1> QED
  BY Zenon, <1>1, <1>2

\* Compaction leaves the token of the receipt.
LEMMA SettleInv ==
    ASSUME NEW Contents, Structure(Contents), IInv(Contents), promote_and_compact
    PROVE  IInv(Contents)'
<1> USE DEF IInv
<1> DEFINE small == [token |-> txn.token, images |-> <<>>, result |-> txn.result]
<1>1. /\ pc = "settle" /\ pc' = resume /\ resume \in {"decide", "idle", "answer"}
      /\ UNCHANGED <<log, mode, cursor, home, file, source, resume, ideal>>
  BY Zenon DEF promote_and_compact, Paths, ghosts
<1>2. ~OnlyPending
  BY Zenon, <1>1 DEF OnlyPending, Paths
<1>3. small # Nil
  BY Zenon DEF Structure
<1>4. \/ UNCHANGED <<receipt, preceipt>>
      \/ home = "pending" /\ preceipt' = small /\ UNCHANGED receipt
      \/ home # "pending" /\ receipt' = small /\ UNCHANGED preceipt
  BY Zenon, <1>2 DEF promote_and_compact
<1>5. Receipt # Nil /\ txn = Receipt /\ Sound(txn) /\ ~Unfinished
  BY Zenon, <1>1, ReceiptSound DEF Receipts, Journal
<1>6. Sound(small)
  BY <1>5 DEF Sound
<1>7. small.token = txn.token
  BY Zenon
<1> HIDE DEF small
<1>8. Receipt' # Nil /\ (Receipt' = Receipt \/ Receipt' = small)
  BY <1>1, <1>3, <1>4, <1>5 DEF Receipt, read_transaction_if_present
<1>9. ~Unfinished'
  BY Zenon, <1>1, <1>5, <1>7, <1>8 DEF Unfinished, read_token
<1>10. Shape(Contents)'
  BY Zenon, <1>1 DEF Shape, Steps, read_token
<1>11. Paths'
  BY Zenon, <1>1, <1>2, <1>4 DEF Paths, InCall, OnlyPending
<1>12. Receipts(Contents)'
  BY ZenonT(40), <1>1, <1>4, <1>6 DEF Receipts, Sound
<1>13. Journal'
  BY Zenon, <1>1, <1>5, <1>9 DEF Journal, Body
<1> QED
  BY Zenon, <1>10, <1>11, <1>12, <1>13

\* The token an entry gets is a token.
LEMMA TokenType ==
    ASSUME NEW Contents, Shape(Contents), mode # "direct", cursor <= Len(log)
    PROVE  effective_token \in Nat \X Nat /\ cursor \in 1..Len(log)
<1>1. cursor \in 1..Len(log) /\ entry.token \in Nat \X Nat
  BY LogsAssumption DEF Shape, entry
<1>2. entry.token[2] \in Nat /\ read_token(file)[1] \in Nat
  BY Zenon, <1>1 DEF Shape
<1> QED
  BY <1>1, <1>2 DEF effective_token

\* A planned mutation is a sound receipt that leads to a content.
LEMMA PlannedTxn ==
    ASSUME NEW Contents, Structure(Contents), Shape(Contents), mode # "direct",
           cursor <= Len(log), Body(file) = ideal,
           Accepted(Plan(Body(file), entry, source)),
           NEW t, t = [token |-> effective_token, result |-> Plan(Body(file), entry, source).result,
                       images |-> Append(Plan(Body(file), entry, source).images,
                                         [c \in {TokenCell} |-> effective_token])]
    PROVE  t # Nil /\ Sound(t) /\ Len(t.images) > 0 /\ Overlay(ideal, t.images) \in Contents
<1> DEFINE plan == Plan(Body(file), entry, source)
           last == [c \in {TokenCell} |-> effective_token]
<1>1. effective_token \in Nat \X Nat /\ cursor \in 1..Len(log) /\ log \in Logs
  BY Zenon, TokenType DEF Shape
<1>2. Accepted(plan) /\ ideal \in Contents /\ source \in Contents /\ entry = log[cursor]
  BY Zenon DEF Shape, entry
<1>3. Images(plan.images) /\ Overlay(ideal, plan.images) \in Contents
  BY Zenon, <1>1, <1>2 DEF Structure, Accepted
<1>4. DOMAIN ideal = Cells
  <2>1. ideal = [c \in Cells |-> ideal[c]]
    BY Zenon, <1>2 DEF Structure
  <2> QED
    BY Zenon, <2>1
<1>5. t.token = effective_token /\ t.images = Append(plan.images, last)
  BY Zenon
<1>6. t # Nil
  BY Zenon DEF Structure
<1> HIDE DEF plan
<1>7. PICK I : plan.images \in Seq(I)
  BY Zenon, <1>3 DEF Images
<1>8. /\ Len(t.images) = Len(plan.images) + 1 /\ Len(plan.images) \in Nat
      /\ t.images[Len(t.images)] = last
      /\ \A k \in 1..Len(plan.images) : t.images[k] = plan.images[k]
      /\ Overlay(ideal, t.images) = Overlay(ideal, plan.images)
  <2> DEFINE im == plan.images
             added == t.images
  <2>1. im \in Seq(I) /\ added = Append(im, last) /\ DOMAIN last = {TokenCell}
    BY Zenon, <1>5, <1>7
  <2> HIDE DEF im, last, added
  <2>2. /\ Len(added) = Len(im) + 1 /\ Len(im) \in Nat /\ added[Len(added)] = last
        /\ \A k \in 1..Len(im) : added[k] = im[k]
    BY <2>1
  <2>3. Overlay(ideal, added) = Overlay(ideal, im)
    BY Zenon, <1>4, <2>1, <2>2, TokenImage
  <2> QED
    BY Zenon, <2>2, <2>3 DEF im, added
<1>9. \A k \in 1..Len(plan.images) : TokenCell \notin DOMAIN plan.images[k]
  BY Zenon, <1>3 DEF Images
<1> HIDE DEF last
<1>10. Sound(t)
  <2>1. t.images[Len(t.images)] = [c \in {TokenCell} |-> t.token]
    <3>1. last = [c \in {TokenCell} |-> t.token]
      BY Zenon, <1>5 DEF last
    <3> QED
      BY Zenon, <1>8, <3>1
  <2>2. \A k \in 1..(Len(t.images) - 1) : TokenCell \notin DOMAIN t.images[k]
    BY <1>8, <1>9
  <2> QED
    BY <1>1, <1>5, <1>8, <2>1, <2>2 DEF Sound
<1> QED
  BY <1>3, <1>6, <1>8, <1>10

\* An entry is planned, refused, or answered from the file.
LEMMA BeginInv ==
    ASSUME NEW Contents, Structure(Contents), IInv(Contents), begin
    PROVE  IInv(Contents)'
<1> USE DEF IInv
<1>1. /\ pc = "decide" /\ mode # "direct" /\ ~Unfinished /\ Body(file) = ideal
      /\ UNCHANGED <<log, mode, source, stoken, ideal>> /\ UNCHANGED fileVars
  BY Zenon DEF begin, Shape, Journal
<1>2. /\ UNCHANGED <<home, file, receipt, preceipt>>
      /\ Receipt' = Receipt /\ read_token(file)' = read_token(file)
      /\ Unfinished' <=> Unfinished
  BY Zenon, <1>1, SameFiles
<1>3. cursor <= Len(log) /\ home # "none" /\ cursor \in Nat \ {0}
  BY Zenon, <1>1 DEF Paths, InCall, Shape
<1>4. CASE \/ pc' = "boundary" /\ cursor' = cursor + 1
           \/ pc' = "blocked" /\ cursor' = cursor
  <2>1. Shape(Contents)'
    BY <1>1, <1>2, <1>3, <1>4 DEF Shape, Steps
  <2>2. Paths'
    BY Zenon, <1>1, <1>2, <1>3, <1>4 DEF Paths, InCall
  <2>3. Receipts(Contents)'
    BY Zenon, <1>2, <1>4, ReceiptsKept
  <2>4. Journal'
    BY Zenon, <1>1, <1>2, <1>4, JournalKept
  <2> QED
    BY Zenon, <2>1, <2>2, <2>3, <2>4
<1>5. CASE /\ pc' = "commit" /\ UNCHANGED cursor
           /\ Accepted(Plan(Body(file), entry, source)) /\ resume' = "answer"
           /\ Before(read_token(file), effective_token)
           /\ txn' = [token |-> effective_token, result |-> Plan(Body(file), entry, source).result,
                      images |-> Append(Plan(Body(file), entry, source).images,
                                        [c \in {TokenCell} |-> effective_token])]
  <2>1. /\ txn' # Nil /\ Sound(txn') /\ Len(txn'.images) > 0
        /\ Overlay(ideal, txn'.images) \in Contents
    BY Zenon, <1>1, <1>3, <1>5, PlannedTxn
  <2>2. txn'.token = effective_token
    BY Zenon, <1>5
  <2>3. Shape(Contents)'
    BY Zenon, <1>1, <1>2, <1>5 DEF Shape, Steps
  <2>4. Paths'
    BY Zenon, <1>1, <1>2, <1>3, <1>5 DEF Paths, InCall
  <2>5. Receipts(Contents)'
    BY Zenon, <1>1, <1>2, <1>5, <2>1, <2>2 DEF Receipts, Sound
  <2>6. Journal'
    BY Zenon, <1>1, <1>2, <1>5, JournalKept
  <2> QED
    BY Zenon, <2>3, <2>4, <2>5, <2>6
<1>6. \/ pc' = "boundary" /\ cursor' = cursor + 1
      \/ pc' = "blocked" /\ cursor' = cursor
      \/ /\ pc' = "commit" /\ UNCHANGED cursor
         /\ Accepted(Plan(Body(file), entry, source)) /\ resume' = "answer"
         /\ Before(read_token(file), effective_token)
         /\ txn' = [token |-> effective_token, result |-> Plan(Body(file), entry, source).result,
                    images |-> Append(Plan(Body(file), entry, source).images,
                                      [c \in {TokenCell} |-> effective_token])]
  BY ZenonT(40) DEF begin, Answer, Block, Accepted, applies
<1> QED
  BY Zenon, <1>4, <1>5, <1>6

\* The receipt is published: it is unfinished, and completing it gives the new
\* content.
LEMMA WriteInv ==
    ASSUME NEW Contents, Structure(Contents), IInv(Contents), write_transaction
    PROVE  IInv(Contents)'
<1> USE DEF IInv
<1>1. /\ pc = "commit" /\ pc' = "apply" /\ written' = 0 /\ mode # "direct"
      /\ ideal' = Overlay(ideal, txn.images)
      /\ UNCHANGED <<log, mode, cursor, home, file, source, txn, resume>>
  BY Zenon DEF write_transaction, Shape
<1>2. ~Unfinished /\ Body(file) = ideal /\ home # "none"
  BY Zenon, <1>1 DEF Journal, Paths, InCall
<1>3. /\ txn # Nil /\ Sound(txn) /\ Len(txn.images) > 0
      /\ Before(read_token(file), txn.token) /\ Overlay(ideal, txn.images) \in Contents
  BY Zenon, <1>1 DEF Receipts
<1>4. Receipt' = txn
  BY Zenon, <1>1, <1>2, <1>3
     DEF write_transaction, WriteReceipt, Receipt, read_transaction_if_present, Shape
<1>5. Unfinished'
  BY Zenon, <1>1, <1>3, <1>4 DEF Unfinished, read_token
<1>6. Shape(Contents)'
  BY Zenon, <1>1, <1>3 DEF Shape, Steps, read_token
<1>7. Paths'
  BY Zenon, <1>1, <1>2 DEF Paths, InCall, write_transaction, WriteReceipt
<1>8. Receipts(Contents)'
  BY Zenon, <1>1, <1>3, <1>4 DEF Receipts, Sound, write_transaction, WriteReceipt
<1>9. Body(Overlay(file, txn.images)) = Overlay(ideal, txn.images)
  <2> DEFINE im == txn.images
  <2>1. DOMAIN file = Cells \cup {TokenCell} /\ DOMAIN ideal = Cells
    BY Zenon, <1>2 DEF Shape, Body
  <2>2. \A c \in Cells : ideal[c] = file[c]
    BY Zenon, <1>2 DEF Body
  <2> HIDE DEF im
  <2>3. \A c \in Cells : Overlay(file, im)[c] = Overlay(ideal, im)[c]
    BY <2>1, <2>2, OverlayCell
  <2>4. Overlay(ideal, im) = [c \in Cells |-> Overlay(ideal, im)[c]]
    BY <2>1 DEF Overlay
  <2> QED
    BY Zenon, <2>3, <2>4 DEF Body, im
<1>10. Journal'
  <2>1. \A images, c : At(images, 0, c) = {}
    BY DEF At
  <2>2. Shown(txn, written)'
    BY Zenon, <1>1, <2>1 DEF Shown
  <2>3. written' \in 0..Len(txn'.images) /\ written' < Len(txn'.images)
    BY <1>1, <1>3 DEF Sound
  <2>4. Body(Overlay(file, Receipt.images))' = ideal'
    <3>1. Body(Overlay(file, Receipt.images))' = Body(Overlay(file', Receipt'.images))
      BY Zenon DEF Body, Overlay
    <3> QED
      BY Zenon, <1>1, <1>4, <1>9, <3>1
  <2> HIDE DEF IInv
  <2> QED
    BY Zenon, <1>1, <1>3, <1>4, <1>5, <2>2, <2>3, <2>4 DEF Journal
<1> QED
  BY Zenon, <1>6, <1>7, <1>8, <1>10

\* The call returns, or the end of an index is reached.
LEMMA ReturnInv ==
    ASSUME NEW Contents, IInv(Contents), commit_returns \/ apply_boundary
    PROVE  IInv(Contents)'
<1> USE DEF IInv
<1>1. /\ pc \in {"answer", "boundary"} /\ pc' \in {"boundary", "publish_file", "idle"}
      /\ pc' = "publish_file" => home = "pending"
      /\ cursor' = cursor \/ cursor' = cursor + 1
      /\ UNCHANGED <<log, mode, source, ideal>> /\ UNCHANGED fileVars
  BY Zenon DEF commit_returns, apply_boundary, Answer, ghosts
<1>2. /\ UNCHANGED <<home, file, receipt, preceipt>>
      /\ Receipt' = Receipt /\ read_token(file)' = read_token(file)
      /\ Unfinished' <=> Unfinished
  BY Zenon, <1>1, SameFiles
<1>3. Shape(Contents)'
  BY <1>1, <1>2 DEF Shape, Steps
<1>4. Paths'
  BY Zenon, <1>1, <1>2 DEF Paths, InCall
<1>5. Receipts(Contents)'
  BY Zenon, <1>1, <1>2, ReceiptsKept
<1>6. Journal'
  <2>1. ~Unfinished
    BY Zenon, <1>1 DEF Journal
  <2> QED
    BY Zenon, <1>1, <1>2, <2>1, JournalKept
<1> QED
  BY Zenon, <1>3, <1>4, <1>5, <1>6

\* The created file takes its final name, and then its receipt does.
LEMMA PublishInv ==
    ASSUME NEW Contents, IInv(Contents),
           publish_pending_prob_file \/ publish_pending_prob_receipt
    PROVE  IInv(Contents)'
<1> USE DEF IInv, publish_pending_prob_file, publish_pending_prob_receipt
<1>1. /\ pc \in {"publish_file", "publish_receipt"} /\ pc' \in {"publish_receipt", "idle"}
      /\ home' = "final" /\ UNCHANGED <<log, mode, cursor, file, source, ideal>>
  BY Zenon DEF ghosts, Paths
<1>2. Receipt' = Receipt
  BY Zenon DEF Receipt, read_transaction_if_present, Paths
<1>3. Shape(Contents)'
  BY Zenon, <1>1 DEF Shape, Steps, read_token
<1>4. Paths'
  BY Zenon DEF Paths, InCall
<1>5. Receipts(Contents)'
  BY Zenon DEF Receipts, Sound
<1>6. Journal'
  <2>1. ~Unfinished
    BY Zenon, <1>1 DEF Journal
  <2> QED
    BY Zenon, <1>1, <1>2, <2>1, JournalKept
<1> QED
  BY Zenon, <1>3, <1>4, <1>5, <1>6

\* A mutation without a token.
LEMMA DirectInv ==
    ASSUME NEW Contents, Structure(Contents), IInv(Contents), call_direct
    PROVE  IInv(Contents)'
<1> USE DEF IInv
<1>1. PICK e \in DirectEntries(log) :
         /\ Direct(Body(file), e).ok
         /\ log' = Append(log, e) /\ cursor' = cursor + 1
         /\ file' = Overlay(file, Direct(Body(file), e).images)
         /\ ideal' = Overlay(ideal, Direct(Body(file), e).images)
  BY Zenon DEF call_direct
<1> DEFINE im == Direct(Body(file), e).images
<1>2. /\ pc = "idle" /\ pc' = "idle" /\ mode = "direct" /\ home' = "final"
      /\ UNCHANGED <<mode, receipt, preceipt, source>>
  BY Zenon DEF call_direct, callVars
<1>3. receipt = Nil /\ preceipt = Nil /\ Receipt' = Nil /\ ~Unfinished' /\ ~Unfinished
  BY Zenon, <1>2 DEF Shape, Receipt, read_transaction_if_present, Unfinished
<1>4. Body(file) = ideal /\ ideal \in Contents
  BY Zenon, <1>3 DEF Journal, Shape
<1>5. ideal' \in Contents
  BY Zenon, <1>1, <1>4 DEF Structure
<1>6. DOMAIN file = Cells \cup {TokenCell} /\ DOMAIN ideal = Cells
  BY Zenon, <1>4 DEF Shape, Body
<1>7. file' = Overlay(file, im) /\ ideal' = Overlay(ideal, im)
  BY Zenon, <1>1
<1> HIDE DEF im
<1>8. Body(file)' = ideal'
  <2>1. \A c \in Cells : ideal[c] = file[c]
    BY Zenon, <1>4 DEF Body
  <2>2. \A c \in Cells : Overlay(file, im)[c] = Overlay(ideal, im)[c]
    BY <1>6, <2>1, OverlayCell
  <2>3. Overlay(ideal, im) = [c \in Cells |-> Overlay(ideal, im)[c]]
    BY <1>6 DEF Overlay
  <2> QED
    BY Zenon, <1>7, <2>2, <2>3 DEF Body
<1>9. Shape(Contents)'
  <2>1. DOMAIN file' = Cells \cup {TokenCell}
    BY Zenon, <1>6, <1>7, OverlayDomain
  <2>2. PICK S : log \in Seq(S)
    BY Zenon, <1>2 DEF Shape
  <2>3. log' \in Seq(S \cup {e}) /\ Len(log') = Len(log) + 1
    BY <1>1, <2>2
  <2>4. cursor' = Len(log') + 1
    BY Zenon, <1>1, <1>2, <2>2, <2>3 DEF Shape
  <2> QED
    BY Zenon, <1>2, <1>3, <1>5, <2>1, <2>3, <2>4 DEF Shape, Steps
<1>10. Paths'
  BY Zenon, <1>2, <1>3 DEF Paths, InCall
<1>11. Receipts(Contents)'
  BY Zenon, <1>2, ReceiptsKept
<1>12. Journal'
  BY Zenon, <1>2, <1>3, <1>8 DEF Journal
<1> QED
  BY Zenon, <1>9, <1>10, <1>11, <1>12

\* The call or the process ends, in the middle of an image or between two.
LEMMA HaltInv ==
    ASSUME NEW Contents, Structure(Contents), IInv(Contents), mode # "direct", CutShort,
           pc' = "boot" \/ (pc \in {"commit", "apply"} /\ pc' = "blocked"), cursor' \in Nat \ {0},
           UNCHANGED <<log, mode, home, receipt, preceipt, source, resume, ideal>>
    PROVE  IInv(Contents)'
<1> USE DEF IInv
<1>1. /\ mode # "direct" /\ pc' \in {"boot", "blocked"}
      /\ UNCHANGED <<log, mode, home, receipt, preceipt, source, resume, ideal>>
  BY Zenon
<1>2. cursor' \in Nat \ {0}
  BY Zenon
<1>3. Paths'
  BY Zenon, <1>1 DEF Paths, InCall
<1>4. Receipts(Contents)'
  BY Zenon, <1>1, ReceiptsKept
<1>5. CASE UNCHANGED file
  <2>1. Receipt' = Receipt
    BY Zenon, <1>1 DEF Receipt, read_transaction_if_present
  <2>2. Journal'
    BY Zenon, <1>1, <1>5, <2>1, JournalKept
  <2>3. Shape(Contents)'
    BY Zenon, <1>1, <1>2, <1>5 DEF Shape, Steps, read_token
  <2> QED
    BY Zenon, <1>3, <1>4, <2>2, <2>3
<1>6. CASE file' # file
  <2>1. /\ pc = "apply" /\ written < Len(txn.images)
        /\ \E S \in (SUBSET DOMAIN txn.images[written + 1]) \ {{}} :
              file' = Overlay(file, <<Torn(txn.images[written + 1], S)>>)
    BY Zenon, <1>6 DEF CutShort
  <2>2. PICK S \in (SUBSET DOMAIN txn.images[written + 1]) \ {{}} :
           file' = Overlay(file, <<Torn(txn.images[written + 1], S)>>)
    BY Zenon, <2>1
  <2> DEFINE part == Torn(txn.images[written + 1], S)
  <2>3. /\ DOMAIN part = S /\ S \subseteq DOMAIN txn.images[written + 1] /\ S # {}
        /\ \A c \in DOMAIN part : part[c] = txn.images[written + 1][c]
        /\ file' = Overlay(file, <<part>>)
    BY Zenon, <2>2 DEF Torn
  <2> HIDE DEF part
  <2>4. txn = Receipt /\ Receipt # Nil /\ Sound(txn)
    BY Zenon, <2>1, ReceiptSound DEF Receipts
  <2>5. written + 1 = Len(txn.images) => DOMAIN part = {TokenCell}
    <3>1. written + 1 = Len(txn.images) => DOMAIN txn.images[written + 1] = {TokenCell}
      BY Zenon, <2>1, <2>4 DEF Sound, Journal
    <3> QED
      BY Zenon, <2>3, <3>1
  <2>6. /\ DOMAIN file' = Cells \cup {TokenCell}
        /\ read_token(file)' \in Nat \X Nat
        /\ Receipt' = Receipt
        /\ Unfinished' <=> written + 1 < Len(txn.images)
        /\ Unfinished' => Body(Overlay(file, Receipt.images))' = ideal
        /\ ~Unfinished' => Body(file)' = ideal
    <3> HIDE DEF IInv
    <3> QED
      BY Zenon, <1>1, <2>1, <2>3, <2>5, WriteImage
  <2>7. Shape(Contents)'
    BY Zenon, <1>1, <1>2, <2>6 DEF Shape, Steps
  <2>8. Journal'
    <3>1. Unfinished' => Len(Receipt'.images) > 0
      BY Zenon, <2>1, <2>4, <2>6 DEF Journal, Sound
    <3> QED
      BY Zenon, <1>1, <2>6, <3>1 DEF Journal
  <2> QED
    BY Zenon, <1>3, <1>4, <2>7, <2>8
<1> QED
  BY Zenon, <1>5, <1>6

\* The process stops.
LEMMA StopInv ==
    ASSUME NEW Contents, Structure(Contents), IInv(Contents), stop
    PROVE  IInv(Contents)'
<1>1. /\ mode # "direct" /\ pc' = "boot" /\ CutShort
      /\ UNCHANGED <<log, mode, home, receipt, preceipt, source, resume, ideal>>
  BY Zenon DEF stop, ghosts
<1>2. cursor' \in Nat \ {0}
  <2>1. cursor \in Nat \ {0}
    BY Zenon, <1>1 DEF IInv, Shape
  <2>2. Reached \in Int
    BY <2>1 DEF Reached
  <2>3. mode = "raft" => cursor' \in 1..Reached
    BY Zenon DEF stop, Starts
  <2>4. mode # "raft" => cursor' = cursor \/ cursor' = cursor + 1
    BY Zenon DEF stop
  <2> QED
    BY <2>1, <2>2, <2>3, <2>4
<1> QED
  BY Zenon, <1>1, <1>2, HaltInv

\* A write fails.
LEMMA FailInv ==
    ASSUME NEW Contents, Structure(Contents), IInv(Contents), fail
    PROVE  IInv(Contents)'
<1>1. /\ pc \in {"commit", "apply"} /\ pc' = "blocked" /\ cursor' = cursor /\ CutShort
      /\ UNCHANGED <<log, mode, home, receipt, preceipt, source, resume, ideal>>
  BY Zenon DEF fail, Block
<1>2. mode # "direct" /\ cursor \in Nat \ {0}
  BY Zenon, <1>1 DEF IInv, Shape
<1> QED
  BY Zenon, <1>1, <1>2, HaltInv

\* A published file keeps its receipt over a start; a file that was not is gone.
LEMMA BootInv ==
    ASSUME NEW Contents, Structure(Contents), IInv(Contents), recover_mutation_receipts
    PROVE  IInv(Contents)'
<1> USE DEF IInv
<1>1. /\ pc = "boot" /\ pc' = "recover" /\ resume' = "idle" /\ mode # "direct"
      /\ UNCHANGED <<log, mode, cursor, source>>
  BY Zenon DEF recover_mutation_receipts, Shape
<1>2. CASE home = "final"
  <2>1. /\ receipt' = IF preceipt # Nil THEN preceipt ELSE receipt
        /\ preceipt' = Nil /\ UNCHANGED <<home, file, ideal>>
    BY Zenon, <1>2 DEF recover_mutation_receipts, ghosts
  <2>2. Receipt' = Receipt
    BY Zenon, <1>2, <2>1 DEF Receipt, read_transaction_if_present, Paths
  <2>3. Shape(Contents)'
    BY Zenon, <1>1, <2>1 DEF Shape, Steps, read_token
  <2>4. Paths'
    BY Zenon, <1>1, <1>2, <2>1 DEF Paths, InCall
  <2>5. Receipts(Contents)'
    BY Zenon, <1>1, <2>1 DEF Receipts, Sound
  <2>6. Journal'
    BY Zenon, <1>1, <2>1, <2>2, JournalKept
  <2> QED
    BY Zenon, <2>3, <2>4, <2>5, <2>6
<1>3. CASE home # "final"
  <2>1. /\ home' = "none" /\ file' = Emptied /\ receipt' = Nil /\ preceipt' = Nil
        /\ ideal' = Fresh
    BY Zenon, <1>3 DEF recover_mutation_receipts
  <2>2. Receipt' = Nil /\ ~Unfinished'
    BY Zenon, <2>1 DEF Receipt, read_transaction_if_present, Unfinished
  <2>3. Fresh \in Contents /\ Fresh = [c \in Cells |-> Fresh[c]]
    BY Zenon DEF Structure
  <2>4. /\ DOMAIN Emptied = Cells \cup {TokenCell} /\ Emptied[TokenCell] = ZERO
        /\ \A c \in Cells : Emptied[c] = Fresh[c]
    BY Zenon, CellsAssumption DEF Emptied
  <2>5. ZERO \in Nat \X Nat
    BY Zenon DEF ZERO
  <2>6. Shape(Contents)'
    BY Zenon, <1>1, <2>1, <2>3, <2>4, <2>5 DEF Shape, Steps, read_token
  <2>7. Paths'
    BY Zenon, <1>1, <2>1 DEF Paths, InCall
  <2>8. Receipts(Contents)'
    BY Zenon, <1>1, <2>1 DEF Receipts
  <2>9. Body(file)' = ideal'
    BY Zenon, <2>1, <2>3, <2>4 DEF Body
  <2>10. Journal'
    BY Zenon, <1>1, <2>2, <2>9 DEF Journal
  <2> QED
    BY Zenon, <2>6, <2>7, <2>8, <2>10
<1> QED
  BY Zenon, <1>2, <1>3

\* Every step keeps the invariant.
LEMMA NextInv ==
    ASSUME NEW Contents, Structure(Contents), IInv(Contents), [Next]_vars
    PROVE  IInv(Contents)'
<1>1. CASE UNCHANGED vars
  <2>1. /\ UNCHANGED <<log, mode, cursor, home, file, receipt, preceipt, source, pc, txn, written,
                       resume, ideal>>
    BY Zenon, <1>1 DEF vars, fileVars, callVars, ghosts
  <2>2. Receipt' = Receipt /\ (Unfinished' <=> Unfinished) /\ read_token(file)' = read_token(file)
    BY Zenon, <2>1 DEF Receipt, read_transaction_if_present, Unfinished, read_token
  <2>3. Shape(Contents)'
    BY Zenon, <2>1, <2>2 DEF IInv, Shape
  <2>4. Paths'
    BY Zenon, <2>1 DEF IInv, Paths, InCall
  <2>5. Receipts(Contents)'
    BY Zenon, <2>1, <2>2 DEF IInv, Receipts, Sound, read_token
  <2>6. Journal'
    <3>1. /\ Body(file)' = Body(file)
          /\ Body(Overlay(file, Receipt.images))' = Body(Overlay(file, Receipt.images))
          /\ Shown(txn, written)' <=> Shown(txn, written)
      BY <2>1, <2>2 DEF Body, Overlay, Shown
    <3> QED
      BY Zenon, <2>1, <2>2, <3>1 DEF IInv, Journal
  <2> QED
    BY Zenon, <2>3, <2>4, <2>5, <2>6 DEF IInv
<1>2. CASE Next
  BY Zenon, <1>2, CallInv, CallSourceInv, RecoverInv, ApplyInv, SettleInv, BeginInv, WriteInv,
     ReturnInv, PublishInv, DirectInv, FailInv, StopInv, BootInv DEF Next
<1> QED
  BY Zenon, <1>1, <1>2

\* The invariant says that the receipt completes the file.
LEMMA InvRecovers ==
    ASSUME NEW Contents, IInv(Contents)
    PROVE  Recoverable
<1>1. Journal
  BY Zenon DEF IInv
<1>2. Completed = IF Unfinished THEN Overlay(file, Receipt.images) ELSE file
  BY Zenon DEF Completed, Unfinished, Receipt
<1>3. Body(Completed) = ideal
  BY Zenon, <1>1, <1>2 DEF Journal
<1>4. pc = "idle" => Body(file) = ideal
  BY Zenon, <1>1 DEF Journal
<1> QED
  BY Zenon, <1>3, <1>4 DEF Recoverable

\* For every structure whose mutations lead from contents to contents, every
\* log and any number of stops and failed writes, each in the middle of any
\* image: the file and its receipt hold every published mutation exactly once.
THEOREM FileIsRecoverable ==
    ASSUME NEW Contents, Structure(Contents)
    PROVE  Spec => []Recoverable
<1>1. Init => IInv(Contents)
  BY Zenon, InitInv
<1>2. IInv(Contents) /\ [Next]_vars => IInv(Contents)'
  BY Zenon, NextInv
<1>3. IInv(Contents) => Recoverable
  BY Zenon, InvRecovers
<1> QED
  BY <1>1, <1>2, <1>3, PTL DEF Spec

-------------------------------------------------------------------------------
(* Replays. *)

\* What the journal asks of a structure for replays to be answered as before: a
\* plan depends on the file alone, so that no entry is a merge, and the receipt
\* keeps what is needed to answer.
Answers(Contents) ==
    /\ Nil # "error"
    /\ \A f, s, r \in Contents, l \in Logs : \A p \in 1..Len(l) :
          LET plan == Plan(f, l[p], s)
          IN  /\ plan = Plan(f, l[p], r)
              /\ Accepted(plan) => /\ Decode(plan.result, l[p]) = plan.answer
                                   /\ plan.answer # Nil /\ plan.answer # "error"
              /\ plan.ok /\ ~plan.commits => plan.answer # Nil
              /\ Stale(f, l[p]) # Nil
    /\ \A f \in Contents : \A l : \A e \in DirectEntries(l) :
          Direct(f, e).ok => Direct(f, e).answer # "error"

\* The newest token the file carries or will carry once the receipt is completed.
Top == IF Unfinished THEN Receipt.token ELSE read_token(file)

\* Entry p is refused when the log is replayed now.
StaysRefused(p) == log[p].token[1] > IndexMax \/ ~Accepted(Plan(ideal, log[p], Fresh))

\* The call of an entry has published its mutation and not answered.
Answering == pc \in {"apply", "settle", "answer"} /\ resume = "answer"

\* Or it never will.
Pending == Answering \/ pc = "blocked"

ForFile(p) == log[p].target = "file"

Replies ==
    /\ DOMAIN first = 1..Len(log) /\ ops \in Seq(1..Len(log))
    /\ \A i \in 1..Len(ops) : first[ops[i]] # "error"
    /\ \A i, j \in 1..Len(ops) : i # j => ops[i] # ops[j]
    /\ reply # Nil /\ reply.how = "replay" =>
          /\ reply.position \in 1..Len(log) /\ reply.result # Nil
          /\ reply.result = first[reply.position]
    /\ pc = "commit" \/ Answering => answer # Nil /\ answer # "error"

\* With a log: what the receipt and the tokens say of the entries published.
Tokens ==
    /\ Receipt # Nil /\ ~Unfinished => read_token(file) = Receipt.token
    /\ Receipt # Nil => ~(Receipt.token[1] > IndexMax)
    /\ \A i \in 1..Len(ops) : ForFile(ops[i]) /\ ~Before(Top, log[ops[i]].token)
    /\ pc = "commit" =>
          /\ txn.token = entry.token /\ ~(txn.token[1] > IndexMax)
          /\ Accepted(Plan(ideal, entry, source))
          /\ Decode(txn.result, entry) = answer
    /\ Answering =>
          /\ Receipt # Nil /\ Receipt.token = entry.token
          /\ Decode(Receipt.result, entry) = answer
    /\ Receipt # Nil =>
          \A p \in 1..Len(log) : log[p].token = Receipt.token =>
              /\ Decode(Receipt.result, log[p]) # Nil /\ Decode(Receipt.result, log[p]) # "error"
              /\ first[p] = Nil \/ first[p] = Decode(Receipt.result, log[p])
    /\ \A i \in 1..Len(ops) :
          first[ops[i]] = Nil => Receipt # Nil /\ log[ops[i]].token = Receipt.token

\* Entries are answered in the order of the log, and an entry that was answered
\* and is past the file's token is refused again.
Answered == \A q \in 1..Len(log) : q < cursor /\ ForFile(q) => first[q] # Nil

History ==
    /\ \A p, q \in 1..Len(log) : q < p /\ first[p] # Nil /\ ForFile(q) => first[q] # Nil
    /\ \A p \in 1..Len(log) :
          ForFile(p) /\ first[p] # Nil /\ Before(Top, log[p].token) => StaysRefused(p)

\* A file that is not published yet was created by the entries the log may still
\* be replayed from.
Position ==
    /\ InCall => ForFile(cursor)
    /\ pc \in {"boundary", "publish_file", "publish_receipt"} => cursor > 1
    /\ cursor <= Len(log) + 1
    /\ home # "final" => \A s \in Starts, q \in 1..Len(log) : q < s => ~ForFile(q)
    /\ home = "none" \/ (home = "pending" /\ pc = "boot") =>
          \A q \in 1..Len(log) : q < cursor => ~ForFile(q)

\* Without a log no entry is replayed.
Local ==
    /\ \A i \in 1..Len(ops) : ops[i] <= cursor /\ (ops[i] = cursor => Pending)
    /\ \A p \in 1..Len(log) : p >= cursor => first[p] = Nil
    /\ reply # Nil => reply.how # "replay"

Tokenless ==
    /\ reply = Nil /\ \A i \in 1..Len(ops) : ops[i] < cursor
    /\ \E S : first \in Seq(S)

RInv ==
    /\ Replies
    /\ mode = "raft" => Tokens /\ Answered /\ History /\ Position
    /\ mode = "local" => Local
    /\ mode = "direct" => Tokenless

\* The step leaves alone what was answered and published, and the receipt says
\* the same.
SameAnswers ==
    /\ UNCHANGED <<log, mode, ideal, ops, first, reply>>
    /\ pc' # "commit" /\ (Answering' => Answering /\ UNCHANGED <<cursor, answer>>)

SameReceipt ==
    /\ Top' = Top
    /\ Receipt' # Nil <=> Receipt # Nil
    /\ Receipt # Nil => Receipt'.token = Receipt.token /\ Receipt'.result = Receipt.result
    /\ mode = "raft" /\ Receipt' # Nil /\ ~Unfinished' => read_token(file)' = Receipt'.token

SameCursor == cursor' = cursor /\ (Pending => Pending')

\* Such a step keeps the invariant, whatever it does to the cursor on an instance
\* without a log but to move it back.
LEMMA QuietStep ==
    ASSUME RInv, mode # "direct", cursor \in Nat, SameAnswers, SameReceipt,
           mode = "raft" => Answered' /\ Position',
           mode = "local" => SameCursor \/ cursor' = cursor + 1
    PROVE  RInv'
<1> USE DEF RInv, SameAnswers
<1>1. Replies'
  BY Zenon DEF Replies
<1>2. ASSUME mode = "raft" PROVE Tokens'
  <2>1. Tokens
    BY Zenon, <1>2
  <2>2. \A p : ForFile(p)' <=> ForFile(p)
    BY Zenon DEF ForFile
  <2>3. Answering' => entry' = entry
    BY Zenon DEF entry
  <2> QED
    BY Zenon, <1>2, <2>1, <2>2, <2>3 DEF Tokens, SameReceipt
<1>3. ASSUME mode = "raft" PROVE History'
  BY Zenon, <1>3 DEF History, SameReceipt, ForFile, StaysRefused
<1>4. ASSUME mode = "local" PROVE Local'
  <2>1. CASE SameCursor
    BY Zenon, <1>4, <2>1 DEF Local, SameCursor
  <2>2. CASE cursor' = cursor + 1
    <3>1. \A i \in 1..Len(ops) : ops[i] \in Nat
      BY DEF Replies
    <3> QED
      BY <1>4, <2>2, <3>1 DEF Local
  <2> QED
    BY Zenon, <1>4, <2>1, <2>2
<1> QED
  BY Zenon, <1>1, <1>2, <1>3, <1>4

\* Tokens are ordered as the entries of the log are.
LEMMA TokenOrder ==
    ASSUME log \in Logs, NEW p \in 1..Len(log), NEW q \in 1..Len(log)
    PROVE  /\ log[p].token \in Nat \X Nat
           /\ p < q <=> Before(log[p].token, log[q].token)
           /\ p = q <=> log[p].token = log[q].token
<1>1. \A r \in 1..Len(log) : log[r].token \in Nat \X Nat
  BY Zenon, LogsAssumption
<1>2. \A r, s \in 1..Len(log) : r < s => Before(log[r].token, log[s].token)
  BY Zenon, LogsAssumption
<1>3. \A s, t \in Nat \X Nat : Before(s, t) => ~Before(t, s) /\ s # t
  BY DEF Before
<1>4. Len(log) \in Int /\ p \in Int /\ q \in Int /\ (p < q \/ p = q \/ q < p)
  <2>1. p \in Int /\ q \in Int
    OBVIOUS
  <2> QED
    BY <2>1
<1> QED
  BY Zenon, <1>1, <1>2, <1>3, <1>4

\* The order of tokens is transitive and total.
LEMMA BeforeOrder ==
    ASSUME NEW r \in Nat \X Nat, NEW s \in Nat \X Nat, NEW t \in Nat \X Nat
    PROVE  /\ Before(r, s) /\ Before(s, t) => Before(r, t)
           /\ Before(r, s) \/ r = s \/ Before(s, r)
           /\ ~(Before(r, s) /\ Before(s, r)) /\ ~Before(r, r)
BY DEF Before

\* A step that changes neither the file nor the receipt.
LEMMA SameFileSame ==
    ASSUME RInv, UNCHANGED file, Receipt' = Receipt
    PROVE  SameReceipt
<1>1. read_token(file)' = read_token(file) /\ (Unfinished' <=> Unfinished)
  BY Zenon DEF read_token, Unfinished
<1> QED
  BY Zenon, <1>1 DEF SameReceipt, Top, RInv, Tokens

\* An entry opens the file.
LEMMA CallReplays ==
    ASSUME NEW Contents, IInv(Contents), RInv, Call
    PROVE  RInv'
<1> USE DEF IInv
<1>1. mode # "direct" /\ cursor \in Nat
  BY DEF Call, Shape, Active
<1>2. SameAnswers
  BY Zenon DEF SameAnswers, Call, ghosts, Answering
<1>3. SameReceipt
  <2>1. Receipt' = Receipt
    BY Zenon DEF Call, Receipt, read_transaction_if_present, Paths
  <2> QED
    BY Zenon, <2>1, SameFileSame DEF Call
<1>4. ASSUME mode = "raft" PROVE Answered' /\ Position'
  <2>1. Reached' = Reached /\ Starts' = Starts
    BY Zenon DEF Call, Reached, Starts
  <2>2. Answered'
    BY Zenon, <1>4 DEF Call, RInv, Answered, ForFile, ghosts
  <2>3. ForFile(cursor)
    BY Zenon DEF Call, ForFile, entry
  <2>4. Position
    BY Zenon, <1>4 DEF RInv
  <2>5. /\ UNCHANGED <<log, cursor>> /\ pc' = "recover" /\ home' # "none"
        /\ home' # "final" => home # "final"
    BY Zenon DEF Call
  <2>6. Position'
    BY Zenon, <2>1, <2>3, <2>4, <2>5 DEF Position, ForFile
  <2> QED
    BY Zenon, <2>2, <2>6
<1>5. SameCursor
  BY Zenon DEF SameCursor, Call, Pending, Answering
<1> QED
  BY Zenon, <1>1, <1>2, <1>3, <1>4, <1>5, QuietStep

\* An entry for the other sketch.
LEMMA CallSourceReplays ==
    ASSUME NEW Contents, IInv(Contents), RInv, CallSource
    PROVE  RInv'
<1> USE DEF IInv
<1>1. mode # "direct" /\ cursor \in Nat
  BY DEF CallSource, Shape, Active
<1>2. SameAnswers
  BY Zenon DEF SameAnswers, CallSource, ghosts, Answering
<1>3. SameReceipt
  <2>1. Receipt' = Receipt /\ UNCHANGED file
    BY Zenon DEF CallSource, Receipt, read_transaction_if_present, fileVars
  <2> QED
    BY Zenon, <2>1, SameFileSame
<1>4. ASSUME mode = "raft" PROVE Answered' /\ Position'
  <2>1. ~ForFile(cursor) /\ cursor > 0 /\ cursor <= Len(log) /\ Len(log) \in Nat
    BY <1>1, LogsAssumption DEF CallSource, entry, ForFile, Active, Shape
  <2>2. Reached = cursor /\ Reached' = cursor
    BY <1>1 DEF CallSource, Reached
  <2>3. Starts' = Starts
    BY Zenon, <2>2 DEF CallSource, Starts
  <2>4. Answered'
    <3>1. \A q \in 1..Len(log) : q < cursor + 1 => q < cursor \/ q = cursor
      BY <1>1
    <3>2. UNCHANGED <<log, first>> /\ cursor' = cursor + 1
      BY Zenon DEF CallSource, ghosts
    <3> QED
      BY Zenon, <1>4, <2>1, <3>1, <3>2 DEF RInv, Answered, ForFile
  <2>5. Position'
    <3>1. Position
      BY Zenon, <1>4 DEF RInv
    <3>2. /\ UNCHANGED <<log, home>> /\ cursor' = cursor + 1 /\ pc' = "boundary"
          /\ ~InCall'
      BY Zenon DEF CallSource, InCall, fileVars
    <3>3. \A q \in 1..Len(log) : q < cursor + 1 => q < cursor \/ q = cursor
      BY <1>1
    <3>4. home = "none" => \A q \in 1..Len(log) : q < cursor + 1 => ~ForFile(q)
      BY Zenon, <2>1, <3>1, <3>3 DEF Position
    <3> QED
      BY <1>1, <2>1, <2>3, <3>1, <3>2, <3>4 DEF Position, ForFile
  <2> QED
    BY Zenon, <2>4, <2>5
<1>5. cursor' = cursor + 1
  BY Zenon DEF CallSource
<1> QED
  BY Zenon, <1>1, <1>2, <1>3, <1>4, <1>5, QuietStep

\* Recovery reads the receipt.
LEMMA RecoverReplays ==
    ASSUME NEW Contents, IInv(Contents), RInv, recover
    PROVE  RInv'
<1> USE DEF IInv
<1>1. mode # "direct" /\ cursor \in Nat /\ resume \in {"decide", "idle"}
  BY Zenon DEF recover, Shape, Paths
<1>2. SameAnswers
  BY Zenon, <1>1 DEF SameAnswers, recover, ghosts, Answering
<1>3. SameReceipt
  <2>1. Receipt' = Receipt /\ UNCHANGED file
    BY Zenon DEF recover, Receipt, read_transaction_if_present, fileVars
  <2> QED
    BY Zenon, <2>1, SameFileSame
<1>4. ASSUME mode = "raft" PROVE Answered' /\ Position'
  <2>1. /\ pc = "recover" /\ pc' \in {"decide", "idle", "apply", "settle"}
        /\ pc' \in {"decide", "idle"} => pc' = resume
        /\ UNCHANGED <<log, cursor, home, resume, first>>
    BY Zenon, <1>1 DEF recover, fileVars, ghosts
  <2>2. Reached' = Reached /\ Starts' = Starts
    BY Zenon, <2>1 DEF Reached, Starts
  <2>3. InCall' => InCall
    BY Zenon, <1>1, <2>1 DEF InCall
  <2> QED
    BY Zenon, <1>4, <2>1, <2>2, <2>3 DEF RInv, Answered, Position, ForFile
<1>5. SameCursor
  BY Zenon, <1>1 DEF SameCursor, recover, Pending, Answering
<1> QED
  BY Zenon, <1>1, <1>2, <1>3, <1>4, <1>5, QuietStep

\* The receipt's images are written.
LEMMA ApplyReplays ==
    ASSUME NEW Contents, Structure(Contents), IInv(Contents), RInv, apply_transaction
    PROVE  RInv'
<1>1. mode # "direct" /\ cursor \in Nat /\ pc = "apply" /\ Receipt # Nil /\ txn = Receipt
  BY Zenon DEF apply_transaction, IInv, Shape, Receipts
<1>2. /\ pc' \in {"apply", "settle"}
      /\ UNCHANGED <<log, mode, cursor, home, receipt, preceipt, resume, answer, ideal, ops, first,
                     reply>>
  BY Zenon DEF apply_transaction, ghosts
<1>3. SameAnswers
  BY Zenon, <1>1, <1>2 DEF SameAnswers, Answering
<1>4. SameReceipt
  <2>1. CASE ~(written < Len(txn.images))
    <3>1. Receipt' = Receipt /\ UNCHANGED file
      BY Zenon, <2>1 DEF apply_transaction, Receipt, read_transaction_if_present
    <3> QED
      BY Zenon, <3>1, SameFileSame
  <2>2. CASE written < Len(txn.images)
    <3> DEFINE part == txn.images[written + 1]
    <3>1. file' = Overlay(file, <<part>>)
      BY Zenon, <2>2 DEF apply_transaction
    <3>2. written + 1 = Len(txn.images) => DOMAIN part = {TokenCell}
      <4>1. Sound(txn) /\ written \in Nat
        BY <1>1, ReceiptSound DEF IInv, Journal
      <4> QED
        BY <2>2, <4>1 DEF Sound
    <3>3. /\ DOMAIN part \subseteq DOMAIN txn.images[written + 1]
          /\ \A c \in DOMAIN part : part[c] = txn.images[written + 1][c]
      BY Zenon
    <3> HIDE DEF part
    <3>4. /\ Receipt' = Receipt /\ Unfinished
          /\ ~Unfinished' => read_token(file)' = Receipt.token
      BY Zenon, <1>1, <1>2, <2>2, <3>1, <3>2, <3>3, WriteImage
    <3> QED
      BY Zenon, <3>4 DEF SameReceipt, Top
  <2> QED
    BY Zenon, <2>1, <2>2
<1>5. ASSUME mode = "raft" PROVE Answered' /\ Position'
  <2>1. Reached' = Reached /\ Starts' = Starts /\ (InCall' <=> InCall)
    BY Zenon, <1>1, <1>2 DEF Reached, Starts, InCall
  <2> QED
    BY Zenon, <1>1, <1>2, <1>5, <2>1 DEF RInv, Answered, Position, ForFile
<1>6. SameCursor
  BY Zenon, <1>1, <1>2 DEF SameCursor, Pending, Answering
<1> QED
  BY Zenon, <1>1, <1>3, <1>4, <1>5, <1>6, QuietStep

\* Compaction keeps the token and what is needed to answer.
LEMMA SettleReplays ==
    ASSUME NEW Contents, Structure(Contents), IInv(Contents), RInv, promote_and_compact
    PROVE  RInv'
<1> USE DEF IInv
<1> DEFINE small == [token |-> txn.token, images |-> <<>>, result |-> txn.result]
<1>1. /\ pc = "settle" /\ pc' = resume /\ resume \in {"decide", "idle", "answer"}
      /\ mode # "direct" /\ cursor \in Nat /\ ~OnlyPending
      /\ UNCHANGED <<log, mode, cursor, home, file, resume, answer, ideal, ops, first, reply>>
  BY Zenon DEF promote_and_compact, Paths, ghosts, Shape, OnlyPending
<1>2. small # Nil
  BY Zenon DEF Structure
<1>3. \/ UNCHANGED <<receipt, preceipt>>
      \/ home = "pending" /\ preceipt' = small /\ UNCHANGED receipt
      \/ home # "pending" /\ receipt' = small /\ UNCHANGED preceipt
  BY Zenon, <1>1 DEF promote_and_compact
<1>4. Receipt # Nil /\ txn = Receipt /\ ~Unfinished
  BY Zenon, <1>1 DEF Receipts, Journal
<1>5. small.token = Receipt.token /\ small.result = Receipt.result
  BY Zenon, <1>4
<1> HIDE DEF small
<1>6. Receipt' # Nil /\ (Receipt' = Receipt \/ Receipt' = small)
  BY <1>1, <1>2, <1>3, <1>4 DEF Receipt, read_transaction_if_present
<1>7. SameReceipt
  <2>1. ~Unfinished' /\ read_token(file)' = read_token(file)
    BY Zenon, <1>1, <1>4, <1>5, <1>6 DEF Unfinished, read_token
  <2> QED
    BY Zenon, <1>4, <1>5, <1>6, <2>1 DEF SameReceipt, Top, RInv, Tokens
<1>8. SameAnswers
  BY Zenon, <1>1 DEF SameAnswers, Answering
<1>9. ASSUME mode = "raft" PROVE Answered' /\ Position'
  <2>1. Reached' = Reached /\ Starts' = Starts /\ (InCall' => InCall)
    BY Zenon, <1>1 DEF Reached, Starts, InCall
  <2> QED
    BY Zenon, <1>1, <1>9, <2>1 DEF RInv, Answered, Position, ForFile
<1>10. SameCursor
  BY Zenon, <1>1 DEF SameCursor, Pending, Answering
<1> QED
  BY Zenon, <1>1, <1>7, <1>8, <1>9, <1>10, QuietStep

\* The end of an index: when a created file stays unpublished, the log cannot be
\* replayed from there.
LEMMA BoundaryReplays ==
    ASSUME NEW Contents, IInv(Contents), RInv, apply_boundary
    PROVE  RInv'
<1> USE DEF IInv
<1>1. /\ pc = "boundary" /\ mode # "direct" /\ cursor \in Nat \ {0}
      /\ pc' = IF EndOfIndex /\ home = "pending" THEN "publish_file" ELSE "idle"
      /\ UNCHANGED <<log, mode, cursor, resume, answer, ideal, ops, first, reply>>
      /\ UNCHANGED <<home, file, receipt, preceipt>>
  BY Zenon DEF apply_boundary, Shape, ghosts, fileVars
<1>2. SameAnswers
  BY Zenon, <1>1 DEF SameAnswers, Answering
<1>3. SameReceipt
  <2>1. Receipt' = Receipt
    BY Zenon, <1>1 DEF Receipt, read_transaction_if_present
  <2> QED
    BY Zenon, <1>1, <2>1, SameFileSame
<1>4. ASSUME mode = "raft" PROVE Answered' /\ Position'
  <2>1. Answered'
    BY Zenon, <1>1, <1>4 DEF RInv, Answered, ForFile
  <2>2. Position /\ cursor > 1
    BY Zenon, <1>1, <1>4 DEF RInv, Position
  <2>3. ~InCall'
    BY Zenon, <1>1 DEF InCall
  <2>4. CASE pc' = "publish_file"
    <3>1. Reached' = Reached /\ Starts' = Starts
      BY Zenon, <1>1, <2>4 DEF Reached, Starts
    <3> QED
      BY Zenon, <1>1, <2>1, <2>2, <2>3, <2>4, <3>1 DEF Position, ForFile
  <2>5. CASE pc' = "idle"
    <3>1. Reached = cursor - 1 /\ Reached' = cursor
      BY Zenon, <1>1, <2>5 DEF Reached
    <3>2. \A s \in Starts' : s \in Starts \/ (s = cursor /\ cursor \in Starts')
      BY <1>1, <3>1 DEF Starts
    <3>3. cursor \in Starts' => EndOfIndex
      BY <1>1, <1>4, <2>2 DEF Starts, EndOfIndex, Active, entry
    <3>4. home = "pending" => cursor \notin Starts'
      BY Zenon, <1>1, <2>5, <3>3
    <3>5. home # "final" => \A s \in Starts', q \in 1..Len(log) : q < s => ~ForFile(q)
      <4> SUFFICES ASSUME home # "final", NEW s \in Starts', NEW q \in 1..Len(log), q < s
                   PROVE  ~ForFile(q)
        BY Zenon
      <4>1. CASE s \in Starts
        BY Zenon, <2>2, <4>1 DEF Position
      <4>2. CASE s = cursor /\ cursor \in Starts'
        <5>1. home = "none"
          BY Zenon, <3>4, <4>2 DEF Shape
        <5> QED
          BY Zenon, <2>2, <4>2, <5>1 DEF Position
      <4> QED
        BY Zenon, <3>2, <4>1, <4>2
    <3>6. Position'
      BY Zenon, <1>1, <2>2, <2>3, <2>5, <3>5 DEF Position, ForFile
    <3> QED
      BY Zenon, <2>1, <3>6
  <2> QED
    BY Zenon, <1>1, <2>4, <2>5
<1>5. SameCursor
  BY Zenon, <1>1 DEF SameCursor, Pending, Answering
<1> QED
  BY Zenon, <1>1, <1>2, <1>3, <1>4, <1>5, QuietStep

\* A published file keeps its receipt.
LEMMA PublishReplays ==
    ASSUME NEW Contents, IInv(Contents), RInv,
           publish_pending_prob_file \/ publish_pending_prob_receipt
    PROVE  RInv'
<1> USE DEF IInv, publish_pending_prob_file, publish_pending_prob_receipt
<1>1. /\ pc \in {"publish_file", "publish_receipt"} /\ pc' \in {"publish_receipt", "idle"}
      /\ home' = "final" /\ mode # "direct" /\ cursor \in Nat
      /\ UNCHANGED <<log, mode, cursor, file, resume, answer, ideal, ops, first, reply>>
  BY Zenon DEF ghosts, Paths, Shape
<1>2. SameAnswers
  BY Zenon, <1>1 DEF SameAnswers, Answering
<1>3. SameReceipt
  <2>1. Receipt' = Receipt
    BY Zenon DEF Receipt, read_transaction_if_present, Paths
  <2> QED
    BY Zenon, <1>1, <2>1, SameFileSame
<1>4. ASSUME mode = "raft" PROVE Answered' /\ Position'
  BY Zenon, <1>1, <1>4 DEF RInv, Answered, Position, ForFile, InCall
<1>5. SameCursor
  BY Zenon, <1>1 DEF SameCursor, Pending, Answering
<1> QED
  BY Zenon, <1>1, <1>2, <1>3, <1>4, <1>5, QuietStep

\* An image that is there in part leaves the receipt and its token alone.
LEMMA HaltSame ==
    ASSUME NEW Contents, Structure(Contents), IInv(Contents), RInv, CutShort,
           UNCHANGED <<mode, home, receipt, preceipt, ideal>>
    PROVE  SameReceipt
<1>1. CASE UNCHANGED file
  <2>1. Receipt' = Receipt
    BY Zenon DEF Receipt, read_transaction_if_present
  <2> QED
    BY Zenon, <1>1, <2>1, SameFileSame
<1>2. CASE file' # file
  <2>1. /\ pc = "apply" /\ written < Len(txn.images)
        /\ \E S \in (SUBSET DOMAIN txn.images[written + 1]) \ {{}} :
              file' = Overlay(file, <<Torn(txn.images[written + 1], S)>>)
    BY Zenon, <1>2 DEF CutShort
  <2>2. PICK S \in (SUBSET DOMAIN txn.images[written + 1]) \ {{}} :
           file' = Overlay(file, <<Torn(txn.images[written + 1], S)>>)
    BY Zenon, <2>1
  <2> DEFINE part == Torn(txn.images[written + 1], S)
  <2>3. /\ DOMAIN part = S /\ S \subseteq DOMAIN txn.images[written + 1] /\ S # {}
        /\ \A c \in DOMAIN part : part[c] = txn.images[written + 1][c]
        /\ file' = Overlay(file, <<part>>)
    BY Zenon, <2>2 DEF Torn
  <2> HIDE DEF part
  <2>4. txn = Receipt /\ Receipt # Nil /\ Sound(txn) /\ written \in Nat
    BY <2>1, ReceiptSound DEF IInv, Receipts, Journal
  <2>5. written + 1 = Len(txn.images) => DOMAIN part = {TokenCell}
    <3>1. written + 1 = Len(txn.images) => DOMAIN txn.images[written + 1] = {TokenCell}
      BY <2>1, <2>4 DEF Sound
    <3> QED
      BY Zenon, <2>3, <3>1
  <2>6. /\ Receipt' = Receipt /\ Unfinished
        /\ ~Unfinished' => read_token(file)' = Receipt.token
    BY Zenon, <2>1, <2>3, <2>5, WriteImage
  <2> QED
    BY Zenon, <2>4, <2>6 DEF SameReceipt, Top
<1> QED
  BY Zenon, <1>1, <1>2

\* The call ends without an answer.
LEMMA BlockedReplays ==
    ASSUME RInv, mode # "direct", cursor \in Nat, pc \in {"decide", "commit", "apply"},
           pc' = "blocked", SameReceipt,
           UNCHANGED <<log, mode, home, cursor, ideal, ops, first, reply>>
    PROVE  RInv'
<1>1. ~InCall' /\ ~Answering' /\ Pending'
  BY Zenon DEF InCall, Answering, Pending
<1>2. SameAnswers /\ SameCursor
  BY Zenon, <1>1 DEF SameAnswers, SameCursor
<1>3. Reached' = Reached /\ Starts' = Starts
  BY Zenon DEF Reached, Starts
<1>4. mode = "raft" => Answered' /\ Position'
  BY Zenon, <1>1, <1>3 DEF RInv, Answered, Position, ForFile
<1> QED
  BY Zenon, <1>2, <1>4, QuietStep

\* The process stops: what was published and answered is known, and the cursor
\* goes back to the start of an index.
LEMMA StopReplays ==
    ASSUME NEW Contents, Structure(Contents), IInv(Contents), RInv, stop
    PROVE  RInv'
<1>1. /\ mode # "direct" /\ pc' = "boot" /\ cursor \in Nat \ {0} /\ CutShort
      /\ UNCHANGED <<log, mode, home, receipt, preceipt, resume, answer, ideal, ops, first, reply>>
  BY Zenon DEF stop, ghosts, IInv, Shape
<1>2. SameAnswers
  BY Zenon, <1>1 DEF SameAnswers, Answering
<1>3. SameReceipt
  BY Zenon, <1>1, HaltSame
<1>4. ASSUME mode = "raft" PROVE Answered' /\ Position'
  <2>1. cursor' \in Starts /\ Reached \in Int /\ Reached <= cursor /\ cursor' <= Reached
    BY <1>1, <1>4 DEF stop, Starts, Reached
  <2>2. cursor' \in Nat /\ cursor' <= cursor
    BY <1>1, <2>1 DEF Starts
  <2>3. Position
    BY Zenon, <1>4 DEF RInv
  <2>4. Reached' = cursor'
    BY Zenon, <1>1 DEF Reached
  <2>5. \A s \in Starts' : s \in Starts
    BY <1>1, <2>1, <2>2, <2>4 DEF Starts
  <2>6. Answered'
    <3>1. \A q \in 1..Len(log) : q < cursor' => q < cursor
      BY <1>1, <2>2
    <3> QED
      BY Zenon, <1>1, <1>4, <3>1 DEF RInv, Answered, ForFile
  <2>7. Position'
    <3>1. ~InCall'
      BY Zenon, <1>1 DEF InCall
    <3>2. cursor' <= Len(log) + 1
      <4>1. Len(log) \in Nat
        BY <1>1, LogsAssumption DEF IInv, Shape
      <4> QED
        BY <1>1, <2>2, <2>3, <4>1 DEF Position
    <3>3. home # "final" => \A q \in 1..Len(log) : q < cursor' => ~ForFile(q)
      BY Zenon, <2>1, <2>3 DEF Position
    <3> QED
      BY Zenon, <1>1, <2>3, <2>5, <3>1, <3>2, <3>3 DEF Position, ForFile
  <2> QED
    BY Zenon, <2>6, <2>7
<1>5. ASSUME mode = "local" PROVE SameCursor \/ cursor' = cursor + 1
  BY Zenon, <1>1, <1>5 DEF stop, SameCursor, Pending, Answering
<1> QED
  BY Zenon, <1>1, <1>2, <1>3, <1>4, <1>5, QuietStep

\* A write fails: the entry stays where it is, published or not.
LEMMA FailReplays ==
    ASSUME NEW Contents, Structure(Contents), IInv(Contents), RInv, fail
    PROVE  RInv'
<1>1. /\ pc \in {"commit", "apply"} /\ pc' = "blocked" /\ cursor' = cursor /\ CutShort
      /\ UNCHANGED <<log, mode, home, receipt, preceipt, resume, answer, ideal, ops, first, reply>>
  BY Zenon DEF fail, Block
<1>2. mode # "direct" /\ cursor \in Nat
  BY Zenon, <1>1 DEF IInv, Shape
<1>3. SameReceipt
  BY Zenon, <1>1, HaltSame
<1> QED
  BY Zenon, <1>1, <1>2, <1>3, BlockedReplays

\* A start: a published file is as it was; without one every entry that created
\* it is replayed.
LEMMA BootReplays ==
    ASSUME NEW Contents, IInv(Contents), RInv, recover_mutation_receipts, Nil # "error"
    PROVE  RInv'
<1> USE DEF IInv
<1>1. /\ pc = "boot" /\ pc' = "recover" /\ resume' = "idle" /\ mode # "direct" /\ cursor \in Nat
      /\ UNCHANGED <<log, mode, cursor, answer>>
  BY Zenon DEF recover_mutation_receipts, Shape
<1>2. ~InCall' /\ ~Answering' /\ ~Answering
  BY Zenon, <1>1 DEF InCall, Answering
<1>3. Reached' = Reached /\ Starts' = Starts
  BY Zenon, <1>1 DEF Reached, Starts
<1>4. CASE home = "final"
  <2>1. /\ receipt' = IF preceipt # Nil THEN preceipt ELSE receipt
        /\ preceipt' = Nil /\ UNCHANGED <<home, file, ideal, ops, first, reply>>
    BY Zenon, <1>4 DEF recover_mutation_receipts, ghosts
  <2>2. Receipt' = Receipt
    BY Zenon, <1>4, <2>1 DEF Receipt, read_transaction_if_present, Paths
  <2>3. SameAnswers
    BY Zenon, <1>1, <1>2, <2>1 DEF SameAnswers
  <2>4. SameReceipt
    BY Zenon, <2>1, <2>2, SameFileSame
  <2>5. ASSUME mode = "raft" PROVE Answered' /\ Position'
    BY Zenon, <1>1, <1>2, <1>4, <2>1, <2>5 DEF RInv, Answered, Position, ForFile
  <2>6. SameCursor
    BY Zenon, <1>1, <1>2 DEF SameCursor, Pending
  <2> QED
    BY Zenon, <1>1, <2>3, <2>4, <2>5, <2>6, QuietStep
<1>5. CASE home # "final"
  <2>1. /\ home' = "none" /\ receipt' = Nil /\ preceipt' = Nil /\ ops' = <<>>
        /\ first' = [p \in DOMAIN first |-> Nil] /\ reply' = Nil
    BY Zenon, <1>5 DEF recover_mutation_receipts
  <2>2. Receipt' = Nil
    BY Zenon, <2>1 DEF Receipt, read_transaction_if_present
  <2>3. /\ DOMAIN first' = 1..Len(log') /\ \A p \in 1..Len(log) : first'[p] = Nil
        /\ ops' \in Seq(1..Len(log')) /\ Len(ops') = 0
    BY <1>1, <2>1 DEF RInv, Replies
  <2>4. Replies'
    BY <1>1, <1>2, <2>1, <2>3 DEF Replies
  <2>5. ASSUME mode = "raft" PROVE Tokens' /\ Answered' /\ History' /\ Position'
    <3>1. Position /\ \A q \in 1..Len(log) : q < cursor => ~ForFile(q)
      BY Zenon, <1>1, <1>5, <2>5 DEF RInv, Position, Shape
    <3>2. \A q : ForFile(q)' <=> ForFile(q)
      BY Zenon, <1>1 DEF ForFile
    <3>3. Tokens'
      BY <1>1, <1>2, <2>2, <2>3 DEF Tokens
    <3>4. Answered'
      BY Zenon, <1>1, <3>1, <3>2 DEF Answered
    <3>5. History'
      BY Zenon, <1>1, <2>3 DEF History
    <3>6. Position'
      BY Zenon, <1>1, <1>2, <1>3, <1>5, <3>1, <3>2 DEF Position
    <3> QED
      BY Zenon, <3>3, <3>4, <3>5, <3>6
  <2>6. ASSUME mode = "local" PROVE Local'
    BY <1>1, <2>1, <2>3 DEF Local
  <2> QED
    BY Zenon, <1>1, <2>4, <2>5, <2>6 DEF RInv
<1> QED
  BY Zenon, <1>4, <1>5

\* Answering an entry of the log: the answer is an error only if the entry is not
\* published, agrees with the receipt if that is the entry's own, and refuses for
\* good an entry that is past the file.
LEMMA AnswerReplays ==
    ASSUME NEW Contents, IInv(Contents), RInv, mode # "direct", InCall, cursor <= Len(log),
           NEW result, NEW how, Answer(result, how), result # Nil,
           UNCHANGED <<log, mode, home, file, receipt, preceipt, ideal, ops>>,
           first[cursor] = Nil /\ (\E i \in 1..Len(ops) : ops[i] = cursor) => result # "error",
           mode = "raft" /\ Receipt # Nil /\ entry.token = Receipt.token /\ first[cursor] = Nil =>
              result = Decode(Receipt.result, entry),
           mode = "raft" /\ Before(Top, entry.token) => StaysRefused(cursor),
           how = "replay" => mode = "raft" /\ (first[cursor] = Nil \/ result = first[cursor])
    PROVE  RInv'
<1> USE DEF RInv
<1>1. cursor \in 1..Len(log) /\ log \in Logs /\ cursor' = cursor + 1 /\ pc' = "boundary"
  BY DEF IInv, Shape, Answer
<1>2. /\ reply' = [position |-> cursor, result |-> result, how |-> how]
      /\ DOMAIN first' = 1..Len(log)
      /\ first'[cursor] = IF first[cursor] = Nil THEN result ELSE first[cursor]
      /\ \A p \in 1..Len(log) : p # cursor => first'[p] = first[p]
  BY Zenon, <1>1 DEF Answer, Replies
<1>3. ~InCall' /\ ~Answering' /\ pc' # "commit"
  BY Zenon, <1>1 DEF InCall, Answering
<1>4. Receipt' = Receipt /\ Top' = Top /\ (Unfinished' <=> Unfinished)
      /\ read_token(file)' = read_token(file)
  BY Zenon DEF Receipt, read_transaction_if_present, Unfinished, read_token, Top
<1>5. ops \in Seq(1..Len(log)) /\ \A i \in 1..Len(ops) : ops[i] \in 1..Len(log)
  BY DEF Replies
<1>6. /\ reply'.position = cursor /\ reply'.result = result /\ reply'.how = how
  BY Zenon, <1>2
<1>7. Replies'
  <2>1. \A i \in 1..Len(ops) : first'[ops[i]] # "error"
    BY Zenon, <1>2, <1>5 DEF Replies
  <2>2. how = "replay" => result = first'[cursor]
    BY Zenon, <1>2
  <2>3. reply' # Nil /\ reply'.how = "replay" =>
           /\ reply'.position \in 1..Len(log) /\ reply'.result # Nil
           /\ reply'.result = first'[reply'.position]
    BY Zenon, <1>1, <1>6, <2>2
  <2> QED
    BY Zenon, <1>2, <1>3, <1>5, <2>1, <2>3 DEF Replies
<1>8. \A p \in 1..Len(log) : first[p] # Nil => first'[p] = first[p]
  BY Zenon, <1>2
<1>9. first'[cursor] # Nil
  BY Zenon, <1>2
<1>10. \A q \in 1..Len(log) : q < cursor + 1 => q < cursor \/ q = cursor
  BY <1>1
<1>11. ASSUME mode = "raft" PROVE Tokens' /\ Answered' /\ History' /\ Position'
  <2>1. \A q : ForFile(q)' <=> ForFile(q)
    BY Zenon DEF ForFile
  <2>2. Tokens /\ Answered /\ History /\ Position
    BY Zenon, <1>11
  <2>3. Tokens'
    <3>1. ASSUME Receipt # Nil, NEW p \in 1..Len(log), log[p].token = Receipt.token
          PROVE  first'[p] = Nil \/ first'[p] = Decode(Receipt.result, log[p])
      <4>1. CASE p = cursor
        BY Zenon, <1>2, <1>11, <2>2, <3>1, <4>1 DEF Tokens, entry
      <4>2. CASE p # cursor
        BY Zenon, <1>2, <2>2, <3>1, <4>2 DEF Tokens
      <4> QED
        BY Zenon, <4>1, <4>2
    <3>2. \A i \in 1..Len(ops) :
             first'[ops[i]] = Nil => Receipt # Nil /\ log[ops[i]].token = Receipt.token
      BY Zenon, <1>5, <1>8, <2>2 DEF Tokens
    <3> QED
      BY Zenon, <1>3, <1>4, <2>1, <2>2, <3>1, <3>2 DEF Tokens
  <2>4. Answered'
    BY Zenon, <1>1, <1>8, <1>9, <1>10, <2>1, <2>2 DEF Answered
  <2>5. History'
    <3>1. ASSUME NEW p \in 1..Len(log), NEW q \in 1..Len(log), q < p, first'[p] # Nil, ForFile(q)
          PROVE  first'[q] # Nil
      <4>1. CASE p = cursor
        BY Zenon, <1>8, <2>2, <3>1, <4>1 DEF Answered
      <4>2. CASE p # cursor
        BY Zenon, <1>2, <1>8, <2>2, <3>1, <4>2 DEF History
      <4> QED
        BY Zenon, <4>1, <4>2
    <3>2. ASSUME NEW p \in 1..Len(log), ForFile(p), first'[p] # Nil, Before(Top, log[p].token)
          PROVE  StaysRefused(p)
      BY Zenon, <1>2, <1>11, <2>2, <3>2 DEF History, entry
    <3>3. \A p : StaysRefused(p)' <=> StaysRefused(p)
      BY Zenon DEF StaysRefused
    <3> QED
      BY Zenon, <1>4, <2>1, <3>1, <3>2, <3>3 DEF History
  <2>6. Position'
    <3>1. pc \in {"recover", "apply", "settle", "decide", "commit", "answer"} /\ home # "none"
      BY Zenon DEF InCall, IInv, Paths
    <3>2. Reached = cursor /\ Reached' = cursor
      BY <1>1, <3>1 DEF Reached
    <3>3. Starts' = Starts
      BY Zenon, <3>2 DEF Starts
    <3>4. cursor + 1 > 1 /\ cursor + 1 <= Len(log) + 1
      BY SMTT(30), <1>1, LogsAssumption
    <3> QED
      BY Zenon, <1>1, <1>3, <2>1, <2>2, <3>1, <3>3, <3>4 DEF Position
  <2> QED
    BY Zenon, <2>3, <2>4, <2>5, <2>6
<1>12. ASSUME mode = "local" PROVE Local'
  <2>1. \A i \in 1..Len(ops) : ops[i] <= cursor /\ ops[i] < cursor + 1
    BY SMTT(30), <1>1, <1>5, <1>12 DEF Local
  <2>2. \A p \in 1..Len(log) : p >= cursor + 1 => p >= cursor /\ p # cursor
    BY <1>1
  <2>3. \A p \in 1..Len(log) : p >= cursor + 1 => first'[p] = Nil
    BY Zenon, <1>2, <1>12, <2>2 DEF Local
  <2>4. reply' # Nil => reply'.how # "replay"
    BY Zenon, <1>6, <1>12
  <2> QED
    BY SMTT(30), <1>1, <1>5, <2>1, <2>3, <2>4 DEF Local
<1> QED
  BY ZenonT(40), <1>7, <1>11, <1>12

\* The call that published the mutation answers.
LEMMA ReturnReplays ==
    ASSUME NEW Contents, IInv(Contents), RInv, commit_returns
    PROVE  RInv'
<1>1. /\ pc = "answer" /\ mode # "direct" /\ InCall /\ cursor <= Len(log) /\ ~Unfinished
      /\ Answer(answer, "applied")
      /\ UNCHANGED <<log, mode, home, file, receipt, preceipt, ideal, ops>>
  BY Zenon DEF commit_returns, IInv, Shape, Paths, InCall, Journal, fileVars
<1>2. Answering /\ answer # Nil /\ answer # "error"
  BY Zenon, <1>1 DEF RInv, Replies, Answering, IInv, Paths
<1>3. ASSUME mode = "raft"
      PROVE  /\ Receipt # Nil /\ Receipt.token = entry.token
             /\ Decode(Receipt.result, entry) = answer /\ Top = entry.token
  BY Zenon, <1>1, <1>2, <1>3 DEF RInv, Tokens, Top
<1>4. entry.token \in Nat \X Nat
  BY <1>1, LogsAssumption DEF IInv, Shape, entry
<1>5. mode = "raft" => ~Before(Top, entry.token)
  BY Zenon, <1>3, <1>4, BeforeIrreflexive
<1> QED
  BY Zenon, <1>1, <1>2, <1>3, <1>5, AnswerReplays

\* An entry is planned, refused, or answered from the file.
LEMMA BeginReplays ==
    ASSUME NEW Contents, Structure(Contents), Answers(Contents), IInv(Contents), RInv, begin
    PROVE  RInv'
<1> DEFINE token == effective_token
           plan == Plan(Body(file), entry, source)
<1>1. /\ pc = "decide" /\ mode # "direct" /\ InCall /\ cursor <= Len(log) /\ ~Unfinished
      /\ Body(file) = ideal /\ Top = read_token(file)
      /\ UNCHANGED <<log, mode, home, file, receipt, preceipt, ideal, ops, source>>
  BY Zenon DEF begin, IInv, Shape, Paths, InCall, Journal, fileVars, Top
<1>2. /\ cursor \in 1..Len(log) /\ log \in Logs /\ entry = log[cursor]
      /\ entry.token \in Nat \X Nat /\ token \in Nat \X Nat
      /\ ideal \in Contents /\ source \in Contents /\ Fresh \in Contents
      /\ read_token(file) \in Nat \X Nat
  BY ZenonT(40), <1>1, TokenType, LogsAssumption DEF IInv, Shape, entry, Structure
<1>3. /\ plan = Plan(ideal, entry, Fresh)
      /\ Accepted(plan) => /\ Decode(plan.result, entry) = plan.answer
                           /\ plan.answer # Nil /\ plan.answer # "error"
      /\ plan.ok /\ ~plan.commits => plan.answer # Nil
      /\ Stale(ideal, entry) # Nil /\ Nil # "error"
  BY <1>1, <1>2 DEF Answers
<1>4. mode = "raft" => token = entry.token
  BY Zenon DEF effective_token
<1>5. mode = "local" =>
         /\ Before(read_token(file), token)
         /\ \A i \in 1..Len(ops) : ops[i] # cursor
  <2>1. mode = "local" => token = <<read_token(file)[1] + 1, entry.token[2]>>
    BY Zenon DEF effective_token
  <2>2. read_token(file)[1] \in Nat
    BY Zenon, <1>2
  <2>3. mode = "local" => Before(read_token(file), token)
    BY <2>1, <2>2 DEF Before
  <2>4. mode = "local" => \A i \in 1..Len(ops) : ops[i] # cursor
    BY Zenon, <1>1 DEF RInv, Local, Pending, Answering
  <2> QED
    BY Zenon, <2>3, <2>4
<1>6. mode = "raft" \/ mode = "local"
  BY Zenon, <1>1 DEF IInv, Shape
<1>7. mode = "raft" => Tokens
  BY Zenon DEF RInv
<1> HIDE DEF token, plan
<1>8. ASSUME Block PROVE RInv'
  <2>1. SameReceipt
    <3>1. Receipt' = Receipt
      BY Zenon, <1>1 DEF Receipt, read_transaction_if_present
    <3> QED
      BY Zenon, <1>1, <3>1, SameFileSame
  <2>2. cursor \in Nat
    BY <1>2
  <2> QED
    BY Zenon, <1>1, <1>8, <2>1, <2>2, BlockedReplays DEF Block
<1>9. CASE token[1] > IndexMax
  BY Zenon, <1>9, <1>8 DEF begin, token
<1>10. CASE ~(token[1] > IndexMax) /\ Before(read_token(file), token) /\ Accepted(plan)
  <2>1. /\ txn' = [token |-> token, result |-> plan.result,
                   images |-> Append(plan.images, [c \in {TokenCell} |-> token])]
        /\ pc' = "commit" /\ resume' = "answer" /\ answer' = plan.answer
        /\ UNCHANGED <<first, reply, cursor>>
    BY Zenon, <1>10 DEF begin, token, plan, Accepted, applies
  <2>2. txn'.token = token /\ txn'.result = plan.result
    BY Zenon, <2>1
  <2>3. ~Answering' /\ ~Answering /\ InCall'
    BY Zenon, <1>1, <2>1 DEF Answering, InCall
  <2>4. /\ Receipt' = Receipt /\ (Unfinished' <=> Unfinished) /\ Top' = Top
        /\ read_token(file)' = read_token(file)
    BY Zenon, <1>1 DEF Receipt, read_transaction_if_present, Unfinished, Top, read_token
  <2>5. Replies'
    BY Zenon, <1>1, <1>3, <1>10, <2>1 DEF RInv, Replies
  <2>6. ASSUME mode = "raft" PROVE Tokens' /\ Answered' /\ History' /\ Position'
    <3>1. \A q : (ForFile(q)' <=> ForFile(q)) /\ (StaysRefused(q)' <=> StaysRefused(q))
      BY Zenon, <1>1 DEF ForFile, StaysRefused
    <3>2. entry' = entry
      BY Zenon, <1>1, <2>1 DEF entry
    <3>3. Accepted(Plan(ideal, entry, source))
      BY Zenon, <1>1, <1>10 DEF plan
    <3>4. Tokens'
      BY Zenon, <1>1, <1>3, <1>4, <1>7, <1>10, <2>1, <2>2, <2>3, <2>4, <2>6, <3>1, <3>2, <3>3 DEF
          Tokens
    <3>5. Answered' /\ History'
      BY Zenon, <1>1, <2>1, <2>4, <2>6, <3>1 DEF RInv, Answered, History
    <3>6. Reached' = Reached /\ Starts' = Starts
      BY Zenon, <1>1, <2>1 DEF Reached, Starts
    <3>7. Position'
      BY Zenon, <1>1, <2>1, <2>6, <3>1, <3>6 DEF RInv, Position
    <3> QED
      BY Zenon, <3>4, <3>5, <3>7
  <2>7. ASSUME mode = "local" PROVE Local'
    BY Zenon, <1>1, <2>1, <2>3, <2>7 DEF RInv, Local, Pending
  <2> QED
    BY Zenon, <1>1, <2>5, <2>6, <2>7 DEF RInv
<1>11. CASE /\ ~(token[1] > IndexMax) /\ Before(read_token(file), token) /\ ~Accepted(plan)
            /\ ~(plan.ok \/ plan.semantic)
  BY Zenon, <1>8, <1>11 DEF begin, token, plan, Accepted, applies
<1>12. CASE /\ ~(token[1] > IndexMax) /\ Before(read_token(file), token) /\ ~Accepted(plan)
            /\ plan.ok \/ plan.semantic
  <2> DEFINE result == IF plan.ok THEN plan.answer ELSE "error"
  <2>1. Answer(result, "refused")
    BY Zenon, <1>12 DEF begin, token, plan, Accepted, applies
  <2>2. result # Nil
    BY Zenon, <1>3, <1>12 DEF Accepted
  <2>3. mode = "raft" => ~(Receipt # Nil /\ entry.token = Receipt.token)
    BY Zenon, <1>1, <1>2, <1>4, <1>7, <1>12, BeforeIrreflexive DEF Tokens
  <2>4. \A i \in 1..Len(ops) : ops[i] # cursor
    BY Zenon, <1>1, <1>2, <1>4, <1>5, <1>6, <1>7, <1>12 DEF Tokens
  <2>5. StaysRefused(cursor)
    BY Zenon, <1>2, <1>3, <1>12 DEF StaysRefused
  <2> HIDE DEF result
  <2> QED
    BY Zenon, <1>1, <2>1, <2>2, <2>3, <2>4, <2>5, AnswerReplays
<1>13. CASE ~(token[1] > IndexMax) /\ ~Before(read_token(file), token)
  <2>1. mode = "raft" /\ token = entry.token
    BY Zenon, <1>4, <1>5, <1>6, <1>13
  <2>2. CASE read_token(file) = token /\ Receipt # Nil /\ Receipt.token = token
    <3> DEFINE result == Decode(Receipt.result, entry)
    <3>1. Answer(result, "replay")
      BY Zenon, <1>13, <2>2 DEF begin, token, applies, Receipt
    <3>2. /\ result # Nil /\ result # "error"
          /\ first[cursor] = Nil \/ first[cursor] = result
      BY Zenon, <1>2, <1>7, <2>1, <2>2 DEF Tokens
    <3> HIDE DEF result
    <3>3. ~Before(Top, entry.token)
      BY Zenon, <1>1, <1>13, <2>1
    <3> QED
      BY Zenon, <1>1, <2>1, <3>1, <3>2, <3>3, AnswerReplays DEF result
  <2>3. CASE ~(read_token(file) = token /\ Receipt # Nil /\ Receipt.token = token)
    <3> DEFINE result == Stale(Body(file), entry)
    <3>1. Answer(result, "stale")
      BY Zenon, <1>13, <2>3 DEF begin, token, applies, Receipt
    <3>2. result # Nil
      BY Zenon, <1>1, <1>3
    <3>3. ~(Receipt # Nil /\ entry.token = Receipt.token)
      BY Zenon, <1>1, <1>7, <2>1, <2>3 DEF Tokens
    <3>4. ~(first[cursor] = Nil /\ \E i \in 1..Len(ops) : ops[i] = cursor)
      BY Zenon, <1>2, <1>7, <2>1, <3>3 DEF Tokens
    <3>5. ~Before(Top, entry.token)
      BY Zenon, <1>1, <1>13, <2>1
    <3> HIDE DEF result
    <3> QED
      BY Zenon, <1>1, <3>1, <3>2, <3>3, <3>4, <3>5, AnswerReplays
  <2> QED
    BY Zenon, <2>2, <2>3
<1> QED
  BY Zenon, <1>9, <1>10, <1>11, <1>12, <1>13

\* What appending to a sequence gives.
LEMMA Appended ==
    ASSUME NEW S, NEW s \in Seq(S), NEW x \in S, NEW t, t = Append(s, x)
    PROVE  /\ t \in Seq(S) /\ Len(s) \in Nat /\ Len(t) = Len(s) + 1 /\ t[Len(s) + 1] = x
           /\ \A i \in 1..Len(s) : t[i] = s[i] /\ s[i] \in S
           /\ \A i \in 1..Len(t) : i \in 1..Len(s) \/ i = Len(s) + 1
OBVIOUS

\* A mutation is published: no entry after it was answered, it was not answered
\* itself, and everything published before it was.
LEMMA WriteReplays ==
    ASSUME NEW Contents, Structure(Contents), Answers(Contents), IInv(Contents), RInv,
           write_transaction
    PROVE  RInv'
<1>1. /\ pc = "commit" /\ pc' = "apply" /\ mode # "direct" /\ resume = "answer" /\ ~Unfinished
      /\ InCall /\ cursor <= Len(log) /\ home # "none" /\ home \in {"none", "pending", "final"}
      /\ ops' = Append(ops, cursor)
      /\ UNCHANGED <<log, mode, cursor, home, file, source, txn, resume, answer, first, reply>>
  BY Zenon DEF write_transaction, IInv, Shape, Paths, InCall, Journal
<1>2. /\ txn # Nil /\ txn.token \in Nat \X Nat /\ Before(read_token(file), txn.token)
  BY Zenon, <1>1 DEF IInv, Receipts, Sound
<1>3. Receipt' = txn
  BY Zenon, <1>1, <1>2 DEF write_transaction, WriteReceipt, Receipt, read_transaction_if_present
<1>4. Unfinished' /\ Top' = txn.token /\ Top = read_token(file)
  BY Zenon, <1>1, <1>2, <1>3 DEF Unfinished, read_token, Top
<1>5. /\ cursor \in 1..Len(log) /\ log \in Logs /\ entry = log[cursor] /\ entry' = entry
      /\ entry.token \in Nat \X Nat /\ read_token(file) \in Nat \X Nat
      /\ ideal \in Contents /\ source \in Contents /\ Fresh \in Contents
  BY <1>1, LogsAssumption DEF IInv, Shape, entry, Structure
<1>6. /\ ops \in Seq(1..Len(log)) /\ ops' \in Seq(1..Len(log)) /\ Len(ops') = Len(ops) + 1
      /\ Len(ops) \in Nat /\ ops'[Len(ops) + 1] = cursor
      /\ \A i \in 1..Len(ops) : ops'[i] = ops[i] /\ ops[i] \in 1..Len(log)
      /\ \A i \in 1..Len(ops') : i \in 1..Len(ops) \/ i = Len(ops) + 1
  <2>1. ops \in Seq(1..Len(log))
    BY Zenon DEF RInv, Replies
  <2> DEFINE P == 1..Len(log)
  <2>2. ops \in Seq(P) /\ cursor \in P
    BY Zenon, <1>5, <2>1
  <2> HIDE DEF P
  <2>3. /\ ops' \in Seq(P) /\ Len(ops) \in Nat /\ Len(ops') = Len(ops) + 1
        /\ ops'[Len(ops) + 1] = cursor
        /\ \A i \in 1..Len(ops) : ops'[i] = ops[i] /\ ops[i] \in P
        /\ \A i \in 1..Len(ops') : i \in 1..Len(ops) \/ i = Len(ops) + 1
    BY <1>1, <2>2, Appended
  <2> QED
    BY Zenon, <2>1, <2>3 DEF P
<1>7. Answering' /\ InCall' /\ ~Answering /\ pc' # "commit"
  BY Zenon, <1>1 DEF Answering, InCall
<1>8. answer # Nil /\ answer # "error" /\ Nil # "error"
  BY Zenon, <1>1 DEF RInv, Replies, Answers
<1>9. \A q : ForFile(q)' <=> ForFile(q)
  BY Zenon, <1>1 DEF ForFile
<1>10. ASSUME mode = "raft"
       PROVE  /\ txn.token = entry.token /\ ~(txn.token[1] > IndexMax)
              /\ Accepted(Plan(ideal, entry, source)) /\ Decode(txn.result, entry) = answer
              /\ Tokens /\ Answered /\ History /\ Position /\ ForFile(cursor)
  BY Zenon, <1>1, <1>10 DEF RInv, Tokens, Position
<1>11. first[cursor] = Nil
  <2>1. CASE mode = "raft"
    <3>1. ~StaysRefused(cursor)
      <4>1. Plan(ideal, entry, source) = Plan(ideal, entry, Fresh)
        BY <1>5 DEF Answers
      <4> QED
        BY ZenonT(40), <1>5, <1>10, <2>1, <4>1 DEF StaysRefused
    <3>2. Before(Top, log[cursor].token)
      BY ZenonT(40), <1>2, <1>4, <1>5, <1>10, <2>1
    <3> QED
      BY Zenon, <1>5, <1>10, <2>1, <3>1, <3>2 DEF History
  <2>2. CASE mode = "local"
    BY <1>5, <2>2 DEF RInv, Local
  <2> QED
    BY Zenon, <1>1, <2>1, <2>2 DEF IInv, Shape
<1>12. ASSUME NEW i \in 1..Len(ops) PROVE ops[i] # cursor
  <2>1. CASE mode = "raft"
    BY Zenon, <1>2, <1>4, <1>5, <1>10, <1>12, <2>1 DEF Tokens
  <2>2. CASE mode = "local"
    BY Zenon, <1>1, <1>7, <1>12, <2>2 DEF RInv, Local, Pending
  <2> QED
    BY Zenon, <1>1, <2>1, <2>2 DEF IInv, Shape
<1>13. Replies'
  <2>1. /\ DOMAIN first = 1..Len(log)
        /\ \A i \in 1..Len(ops) : first[ops[i]] # "error"
        /\ \A i, j \in 1..Len(ops) : i # j => ops[i] # ops[j]
        /\ reply # Nil /\ reply.how = "replay" =>
              /\ reply.position \in 1..Len(log) /\ reply.result # Nil
              /\ reply.result = first[reply.position]
    BY Zenon DEF RInv, Replies
  <2>2. \A i \in 1..Len(ops') : first'[ops'[i]] # "error"
    BY ZenonT(40), <1>1, <1>6, <1>8, <1>11, <2>1
  <2>3. \A i, j \in 1..Len(ops') : i # j => ops'[i] # ops'[j]
    BY ZenonT(40), <1>6, <1>12, <2>1
  <2> QED
    BY Zenon, <1>1, <1>6, <1>8, <2>1, <2>2, <2>3 DEF Replies
<1>14. ASSUME mode = "raft" PROVE Tokens' /\ Answered' /\ History' /\ Position'
  <2>1. Tokens'
    <3>1. \A i \in 1..Len(ops') : ForFile(ops'[i]) /\ ~Before(txn.token, log[ops'[i]].token)
      <4>1. ASSUME NEW i \in 1..Len(ops)
            PROVE  ForFile(ops[i]) /\ ~Before(txn.token, log[ops[i]].token)
        <5>1. ForFile(ops[i]) /\ ~Before(read_token(file), log[ops[i]].token)
          BY Zenon, <1>4, <1>10, <1>14 DEF Tokens
        <5>2. log[ops[i]].token \in Nat \X Nat
          BY Zenon, <1>5, <1>6, LogsAssumption
        <5> QED
          BY SMTT(30), <1>2, <1>5, <5>1, <5>2, BeforeOrder
      <4>2. ~Before(txn.token, log[cursor].token)
        BY ZenonT(40), <1>2, <1>5, <1>10, <1>14, BeforeIrreflexive
      <4> QED
        BY Zenon, <1>6, <1>10, <1>14, <4>1, <4>2
    <3>2. ASSUME NEW p \in 1..Len(log), log[p].token = txn.token
          PROVE  p = cursor
      BY <1>5, <1>10, <1>14, <3>2, TokenOrder
    <3>3. ASSUME NEW i \in 1..Len(ops') , first[ops'[i]] = Nil
          PROVE  log[ops'[i]].token = txn.token
      <4>1. CASE i = Len(ops) + 1
        BY Zenon, <1>5, <1>6, <1>10, <1>14, <4>1
      <4>2. CASE i \in 1..Len(ops)
        <5> DEFINE p == ops[i]
        <5>1. p \in 1..Len(log) /\ first[p] = Nil /\ p # cursor /\ ForFile(p)
          BY Zenon, <1>6, <1>10, <1>12, <1>14, <3>3, <4>2 DEF Tokens
        <5>2. ~(p < cursor)
          BY Zenon, <1>10, <1>14, <5>1 DEF Answered
        <5>3. cursor < p
          BY <1>5, <5>1, <5>2
        <5>4. Before(log[cursor].token, log[p].token)
          BY Zenon, <1>5, <5>1, <5>3, TokenOrder
        <5>5. ~Before(txn.token, log[p].token)
          BY Zenon, <1>6, <3>1, <4>2
        <5> QED
          BY Zenon, <1>5, <1>10, <1>14, <5>4, <5>5
      <4> QED
        BY Zenon, <1>6, <4>1, <4>2
    <3> QED
      BY Zenon, <1>1, <1>2, <1>3, <1>4, <1>5, <1>7, <1>8, <1>9, <1>10, <1>11, <1>14, <3>1, <3>2, <3>3
         DEF Tokens
  <2>2. Answered'
    BY Zenon, <1>1, <1>9, <1>10, <1>14 DEF Answered
  <2>3. History'
    <3>1. ASSUME NEW p \in 1..Len(log), first[p] # Nil, Before(txn.token, log[p].token)
          PROVE  FALSE
      <4>1. cursor < p
        BY Zenon, <1>5, <1>10, <1>14, <3>1, TokenOrder
      <4> QED
        BY Zenon, <1>5, <1>10, <1>11, <1>14, <3>1, <4>1 DEF History
    <3>2. \A p, q \in 1..Len(log) : q < p /\ first[p] # Nil /\ ForFile(q) => first[q] # Nil
      BY Zenon, <1>10, <1>14 DEF History
    <3> QED
      BY Zenon, <1>1, <1>4, <1>9, <3>1, <3>2 DEF History
  <2>4. Reached' = Reached /\ Starts' = Starts
    BY Zenon, <1>1 DEF Reached, Starts
  <2>5. Position'
    BY Zenon, <1>1, <1>9, <1>10, <1>14, <2>4 DEF Position
  <2> QED
    BY Zenon, <2>1, <2>2, <2>3, <2>5
<1>15. ASSUME mode = "local" PROVE Local'
  <2>1. \A i \in 1..Len(ops) : ops[i] <= cursor
    BY ZenonT(40), <1>15 DEF RInv, Local
  <2>2. \A i \in 1..Len(ops') : ops'[i] <= cursor'
    BY <1>1, <1>5, <1>6, <2>1
  <2> QED
    BY Zenon, <1>1, <1>7, <1>15, <2>2 DEF RInv, Local, Pending
<1> QED
  BY Zenon, <1>1, <1>13, <1>14, <1>15 DEF RInv

\* A mutation without a token.
LEMMA DirectReplays ==
    ASSUME NEW Contents, Answers(Contents), IInv(Contents), RInv, call_direct
    PROVE  RInv'
<1>1. PICK e \in DirectEntries(log) :
         /\ Direct(Body(file), e).ok
         /\ log' = Append(log, e) /\ cursor' = cursor + 1 /\ ops' = Append(ops, cursor)
         /\ first' = Append(first, Direct(Body(file), e).answer)
  BY Zenon DEF call_direct
<1>2. /\ pc = "idle" /\ pc' = "idle" /\ mode = "direct" /\ mode' = "direct" /\ reply' = reply
      /\ reply = Nil /\ cursor = Len(log) + 1 /\ ~Unfinished
  BY Zenon DEF call_direct, callVars, RInv, Tokenless, IInv, Shape, Journal
<1>3. Body(file) = ideal /\ ideal \in Contents
  BY Zenon, <1>2 DEF IInv, Journal, Shape
<1>4. Direct(Body(file), e).answer # "error"
  BY Zenon, <1>1, <1>3 DEF Answers
<1> DEFINE answered == Direct(Body(file), e).answer
<1>5. PICK S : log \in Seq(S)
  BY Zenon, <1>2 DEF IInv, Shape
<1>6. PICK T : first \in Seq(T)
  BY Zenon, <1>2 DEF RInv, Tokenless
<1>7. /\ Len(log) \in Nat /\ Len(log') = Len(log) + 1
  BY <1>1, <1>5
<1> HIDE DEF answered
<1>8. DOMAIN first = 1..Len(log) /\ Len(first) = Len(log)
  <2>1. DOMAIN first = 1..Len(log) /\ DOMAIN first = 1..Len(first) /\ Len(first) \in Nat
    BY <1>6 DEF RInv, Replies
  <2> QED
    BY SMTT(30), <1>7, <2>1
<1>9. /\ first' = Append(first, answered)
      /\ first' \in Seq(T \cup {answered}) /\ DOMAIN first' = 1..(Len(log) + 1)
      /\ first'[Len(log) + 1] = answered
      /\ \A p \in 1..Len(log) : first'[p] = first[p]
  <2>1. first' = Append(first, answered)
    BY Zenon, <1>1 DEF answered
  <2> QED
    BY <1>6, <1>8, <2>1
<1>10. ops \in Seq(1..Len(log)) /\ \A i \in 1..Len(ops) : ops[i] < cursor
  BY Zenon, <1>2 DEF RInv, Replies, Tokenless
<1>11. /\ Len(ops) \in Nat /\ Len(ops') = Len(ops) + 1 /\ ops'[Len(ops) + 1] = cursor
       /\ \A i \in 1..Len(ops) : ops'[i] = ops[i] /\ ops[i] \in 1..Len(log)
       /\ \A i \in 1..Len(ops') : i \in 1..Len(ops) \/ i = Len(ops) + 1
       /\ ops' \in Seq(1..Len(log'))
  <2>1. ops \in Seq(1..Len(log')) /\ cursor \in 1..Len(log')
    BY <1>2, <1>7, <1>10
  <2>2. \A i \in 1..Len(ops) : ops[i] \in 1..Len(log)
    BY <1>10
  <2> DEFINE P == 1..Len(log')
  <2>3. ops \in Seq(P) /\ cursor \in P
    BY Zenon, <2>1
  <2> HIDE DEF P
  <2>4. /\ ops' \in Seq(P) /\ Len(ops) \in Nat /\ Len(ops') = Len(ops) + 1
        /\ ops'[Len(ops) + 1] = cursor
        /\ \A i \in 1..Len(ops) : ops'[i] = ops[i] /\ ops[i] \in P
        /\ \A i \in 1..Len(ops') : i \in 1..Len(ops) \/ i = Len(ops) + 1
    BY <1>1, <2>3, Appended
  <2> QED
    BY Zenon, <2>2, <2>4 DEF P
<1>12. Replies'
  <2>1. \A i \in 1..Len(ops') : first'[ops'[i]] # "error"
    BY ZenonT(40), <1>2, <1>4, <1>9, <1>11 DEF answered, RInv, Replies
  <2>2. \A i, j \in 1..Len(ops') : i # j => ops'[i] # ops'[j]
    <3>1. \A i, j \in 1..Len(ops) : i # j => ops[i] # ops[j]
      BY Zenon DEF RInv, Replies
    <3>2. \A i \in 1..Len(ops) : ops[i] # cursor
      BY <1>2, <1>7, <1>10, <1>11
    <3> QED
      BY Zenon, <1>11, <3>1, <3>2
  <2>3. ~Answering'
    BY Zenon, <1>2 DEF Answering
  <2> QED
    BY Zenon, <1>2, <1>7, <1>9, <1>11, <2>1, <2>2, <2>3 DEF Replies
<1>13. Tokenless'
  <2>1. \A i \in 1..Len(ops') : ops'[i] < cursor'
    BY <1>1, <1>2, <1>7, <1>11
  <2> QED
    BY Zenon, <1>2, <1>9, <2>1 DEF Tokenless
<1> QED
  BY Zenon, <1>2, <1>12, <1>13 DEF RInv

\* In the initial state nothing is answered or published.
LEMMA InitReplays ==
    ASSUME Nil # "error", Init
    PROVE  RInv
<1>1. /\ ops = <<>> /\ Len(ops) = 0 /\ ops \in Seq(1..Len(log)) /\ reply = Nil /\ cursor = 1
      /\ DOMAIN first = 1..Len(log) /\ \A p \in 1..Len(log) : first[p] = Nil
      /\ Receipt = Nil /\ pc = "idle"
  BY DEF Init, Receipt, read_transaction_if_present
<1>2. ~Answering /\ ~InCall /\ Reached = 1
  BY Zenon, <1>1 DEF Answering, InCall, Reached
<1>3. Replies
  BY <1>1, <1>2 DEF Replies
<1>4. ASSUME mode = "raft" PROVE Tokens /\ Answered /\ History /\ Position
  <2>1. log \in Logs /\ Len(log) \in Nat
    BY SMTT(30), <1>4, LogsAssumption DEF Init
  <2>2. Tokens
    BY <1>1, <1>2 DEF Tokens
  <2>3. Answered /\ History
    BY <1>1 DEF Answered, History
  <2>4. \A s \in Starts : s = 1
    BY <1>2 DEF Starts
  <2>5. Position
    BY <1>1, <1>2, <2>1, <2>4 DEF Position
  <2> QED
    BY Zenon, <2>2, <2>3, <2>5
<1>5. ASSUME mode = "local" PROVE Local
  BY <1>1 DEF Local
<1>6. ASSUME mode = "direct" PROVE Tokenless
  <2>1. log = <<>>
    BY Zenon, <1>6 DEF Init
  <2>2. first \in Seq({})
    <3>1. first = [p \in 1..Len(log) |-> Nil]
      BY Zenon DEF Init
    <3>2. first = <<>>
      BY <2>1, <3>1
    <3> QED
      BY <3>2
  <2> QED
    BY <1>1, <2>2 DEF Tokenless
<1> QED
  BY Zenon, <1>3, <1>4, <1>5, <1>6 DEF RInv

\* Every step keeps the invariant.
LEMMA NextReplays ==
    ASSUME NEW Contents, Structure(Contents), Answers(Contents), IInv(Contents), RInv, [Next]_vars
    PROVE  RInv'
<1>1. CASE UNCHANGED vars
  <2>1. UNCHANGED <<log, mode, cursor, home, file, receipt, preceipt, source, pc, txn, resume, answer,
                    ideal, ops, first, reply>>
    BY Zenon, <1>1 DEF vars, fileVars, callVars, ghosts
  <2>2. /\ Receipt' = Receipt /\ (Unfinished' <=> Unfinished) /\ Top' = Top
        /\ read_token(file)' = read_token(file) /\ (Answering' <=> Answering)
        /\ (InCall' <=> InCall) /\ entry' = entry
    BY Zenon, <2>1 DEF Receipt, read_transaction_if_present, Unfinished, Top, read_token, Answering,
                InCall, entry
  <2>3. \A q : (ForFile(q)' <=> ForFile(q)) /\ (StaysRefused(q)' <=> StaysRefused(q))
    BY Zenon, <2>1 DEF ForFile, StaysRefused
  <2>4. Starts' = Starts
    BY Zenon, <2>1 DEF Starts, Reached
  <2>5. Replies'
    BY Zenon, <2>1, <2>2 DEF RInv, Replies
  <2>6. mode = "raft" => Tokens'
    BY Zenon, <2>1, <2>2, <2>3 DEF RInv, Tokens
  <2>7. mode = "raft" => Answered' /\ History' /\ Position'
    BY Zenon, <2>1, <2>2, <2>3, <2>4 DEF RInv, Answered, History, Position
  <2>8. (mode = "local" => Local') /\ (mode = "direct" => Tokenless')
    BY Zenon, <2>1, <2>2 DEF RInv, Local, Pending, Tokenless
  <2> QED
    BY Zenon, <2>1, <2>5, <2>6, <2>7, <2>8 DEF RInv
<1>2. CASE Next
  <2>1. Nil # "error"
    BY Zenon DEF Answers
  <2> QED
    BY SMTT(30), <1>2, <2>1, CallReplays, CallSourceReplays, RecoverReplays, ApplyReplays, SettleReplays,
       BeginReplays, WriteReplays, ReturnReplays, BoundaryReplays, PublishReplays, DirectReplays,
       FailReplays, StopReplays, BootReplays DEF Next
<1> QED
  BY Zenon, <1>1, <1>2

\* For every structure that answers from its file and its receipt, every log and
\* any number of stops: an entry that is replayed takes no effect a second time
\* and none after it was refused, and the entry the receipt stands for is answered
\* as it was the first time.
THEOREM ReplaysTakeEffectOnce ==
    ASSUME NEW Contents, Structure(Contents), Answers(Contents)
    PROVE  Spec => []ReplaysOnce
<1>1. Init => IInv(Contents) /\ RInv
  BY Zenon, InitInv, InitReplays DEF Answers
<1>2. IInv(Contents) /\ RInv /\ [Next]_vars => IInv(Contents)' /\ RInv'
  BY Zenon, NextInv, NextReplays
<1>3. RInv => ReplaysOnce
  BY Zenon DEF RInv, Replies, ReplaysOnce, ReplayAnswersAsBefore, PublishedOnce
<1> QED
  BY <1>1, <1>2, <1>3, PTL DEF Spec
================================================================================
