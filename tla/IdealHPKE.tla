------------------------------ MODULE IdealHPKE ------------------------------
(***************************************************************************)
(* What single-shot HPKE in base mode promises the users of HPKEPublicKey *)
(* and HPKEPrivateKey (spec sections 4.D and 4.F, properties 1 and 2),     *)
(* with no reference to keys, KEMs or key schedules:                       *)
(*   - every encapsulation (the kem_output of encrypt, the enc of a sender *)
(*     export) is new;                                                      *)
(*   - decrypt returns the plaintext of the one encryption with this exact *)
(*     ciphertext, info and aad, sent to a public key the decrypting key   *)
(*     owns, and fails otherwise;                                           *)
(*   - a receiver export equals the sender export with this enc, info,     *)
(*     label and size, to a public key the receiving key owns, and         *)
(*     otherwise equals no sender export at all.                           *)
(* Owns(key, suite, pub, sentSuite) is the detailed model's notion of a    *)
(* private key, used under `suite`, owning a public key that something was *)
(* sent to under `sentSuite`.  The reads record their call in `last`.      *)
(***************************************************************************)
CONSTANTS
  Owns(_, _, _, _),  \* key, used under suite, owns pub, used under sentSuite
  Failure            \* the outcome of a call that threw

VARIABLES
  sent,       \* encryptions: [pub, suite, info, aad, pt, ct]
  exported,   \* sender exports: [pub, suite, info, label, size, enc, value]
  last        \* the last decrypt or receiver export and its outcome, or None

avars == <<sent, exported, last>>

None == [op |-> "none"]

\* An encapsulation no earlier encryption or export has produced.
FreshEnc(enc) ==
  enc \notin {e.ct.kem_output : e \in sent} \cup {x.enc : x \in exported}

\* The encryptions a decrypt call `c` may open.
Openable(c) ==
  {e \in sent : /\ e.ct = c.ct /\ e.info = c.info /\ e.aad = c.aad
                /\ Owns(c.key, c.suite, e.pub, e.suite)}

\* The sender exports a receiver export call `c` reproduces.
Matching(c) ==
  {x \in exported : /\ x.enc = c.enc /\ x.info = c.info
                    /\ x.label = c.label /\ x.size = c.size
                    /\ Owns(c.key, c.suite, x.pub, x.suite)}

Encrypt ==
  /\ \E e \in sent' : /\ e \notin sent /\ sent' = sent \cup {e}
                      /\ FreshEnc(e.ct.kem_output)
  /\ exported' = exported
  /\ last' = None

Decrypt ==
  /\ last'.op = "decrypt"
  /\ last'.out = IF Openable(last') = {} THEN Failure
                 ELSE (CHOOSE e \in Openable(last') : TRUE).pt
  /\ UNCHANGED <<sent, exported>>

ExportSender ==
  /\ \E x \in exported' : /\ x \notin exported /\ exported' = exported \cup {x}
                          /\ FreshEnc(x.enc)
                          /\ x.value \notin {y.value : y \in exported}
  /\ sent' = sent
  /\ last' = None

ExportReceiver ==
  /\ last'.op = "export_r"
  /\ IF Matching(last') = {}
     THEN last'.out \notin {x.value : x \in exported}
     ELSE last'.out = (CHOOSE x \in Matching(last') : TRUE).value
  /\ UNCHANGED <<sent, exported>>

\* Key generation, parsing and derivation, and calls that threw before
\* sending anything.
Other ==
  /\ UNCHANGED <<sent, exported>>
  /\ last' = None

Init == sent = {} /\ exported = {} /\ last = None

Next == Encrypt \/ Decrypt \/ ExportSender \/ ExportReceiver \/ Other

Spec == Init /\ [][Next]_avars
=============================================================================
