---------------------------- MODULE Authentication ----------------------------
(***************************************************************************)
(* Digest authentication of a request (rtsp_server.c,                      *)
(* digest_authentication.c, our_md5.c).                                    *)
(*                                                                         *)
(* A header "Authorization: Digest" is a record: the fields it gives, as a *)
(* function, and whether more than fields follows the last of them, such   *)
(* as a comma with nothing behind it.  The digest function starts from     *)
(* memory nobody has set and its transform is empty, so a digest is any of *)
(* Digests.                                                                *)
(***************************************************************************)
EXTENDS ServerClasses

CONSTANTS
  Users, Realms,
  Digests,   \* the strings a digest can be
  Headers    \* [fields, more], and NoHeader

NoHeader == [fields |-> << >>, more |-> FALSE]

ASSUME AuthenticationAssumption == NoHeader \in Headers

(* The parse succeeds when the header ends with a complete field.            *)
Field(header, f) == IF f \in DOMAIN header.fields THEN header.fields[f] ELSE Null
ParseAuthorizationHeader(header) == header # NoHeader /\ ~header.more

------------------------------------------------------------------------------
(* The authenticator of a connection *)

ResetRealmAndNonce(h, c) ==
  Set(Set(FreeIf(FreeIf(h, c, "realm"), c, "nonce"), c, "realm", Null), c, "nonce", Null)
AssignRealmAndNonce(h, c, realm, nonce) ==
  Set(Set(Make(h, c, {"realm", "nonce"}), c, "realm", realm), c, "nonce", nonce)

SetRealmAndRandomNonce(h, c, realm, nonce) ==
  AssignRealmAndNonce(ResetRealmAndNonce(h, c), c, realm, nonce)

ResetUsernameAndPassword(h, c) == FreeIf(FreeIf(h, c, "username"), c, "password")
AssignUsernameAndPassword(h, c) == Make(h, c, {"username", "password"})
SetUsernameAndPassword(h, c) == AssignUsernameAndPassword(ResetUsernameAndPassword(h, c), c)

(* The text of a digest is twice as long as the memory it is put in.         *)
OurMd5Data(h, c) == Fault(Make(h, c, {"our_response"}), "overrun", c, "our_response")

Ha1Data(h, c) == Free(Make(Touch(Touch(h, c, "realm"), c, "password"), c, {"ha1_data"}), c, "ha1_data")
Ha2Data(h, c) == Free(Make(h, c, {"ha2_data"}), c, "ha2_data")
ComputeDigestResponse(h, c) ==
  Free(OurMd5Data(Make(Ha2Data(Ha1Data(h, c), c), c, {"digest_data"}), c), c, "digest_data")
ReclaimDigestResponse(h, c) == Free(h, c, "our_response")

------------------------------------------------------------------------------
(* Mutant: a nonce of the past is as good. *)
NamesAnyChallenge(h, c, header) ==
  /\ Ref(h, c, "nonce") # Null
  /\ ~ParseAuthorizationHeader(header)
  /\ {"username", "uri", "response"} \subseteq DOMAIN header.fields
  /\ Field(header, "realm") = Ref(h, c, "realm")

(* The test for what the server told last reads the result of the parse the  *)
(* wrong way round: it takes the headers whose parse failed.                 *)
NamesChallenge(h, c, header) ==
  /\ Ref(h, c, "nonce") # Null
  /\ ~ParseAuthorizationHeader(header)
  /\ {"username", "uri", "response"} \subseteq DOMAIN header.fields
  /\ Field(header, "realm") = Ref(h, c, "realm")
  /\ Field(header, "nonce") = Ref(h, c, "nonce")

(* The outcome of a request: whether it is let in, the digest its response    *)
(* was compared with, and the heap.  Without a database it is let in; a      *)
(* request that is refused is told a new nonce.                              *)
AuthenticationOk(h, c, header, digest, nonce) ==
  LET db       == Ref(h, Server, "auth_db")
      known    == NamesChallenge(h, c, header) /\ LookupPassword(h, Field(header, "username"))
      computed == IF known
                  THEN ReclaimDigestResponse(ComputeDigestResponse(SetUsernameAndPassword(h, c), c), c)
                  ELSE h
      success  == known /\ digest = Field(header, "response")
  IN  IF db = Null THEN [ok |-> TRUE, response |-> Null, heap |-> h]
      ELSE IF success THEN [ok |-> TRUE, response |-> digest, heap |-> computed]
      ELSE [ok |-> FALSE, response |-> Null,
            heap |-> SetRealmAndRandomNonce(computed, c, Ref(h, Database, "realm"), nonce)]
===============================================================================
