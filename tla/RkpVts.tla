------------------------------- MODULE RkpVts -------------------------------
(***************************************************************************)
(* The VTS of IRemotelyProvisionedComponent                                *)
(* (src/security/keymint/aidl/vts/functional/                              *)
(* VtsRemotelyProvisionedComponentTests.cpp) run against one HAL instance, *)
(* plus the non-parameterized eachRpcHasAUniqueId over it and one other    *)
(* instance.  gtest runs the tests one after the other, each with a fresh  *)
(* fixture, so each test is one step: its verdict (pass, fail or skip) is  *)
(* computed from the HAL by the test's control flow, its version gates,    *)
(* the helpers it calls and the ASSERTs and EXPECTs it makes.              *)
(*                                                                         *)
(* The HAL, its KeyMint device and remote_prov_utils are not in the        *)
(* repository.  Cryptography is abstracted: a maced key is whether it has  *)
(* the test-key marker and whether its MAC is intact; an EEK chain is its  *)
(* root (test or prod), length, and whether a signature is corrupt or the  *)
(* root was removed.  The HAL is an environment chosen at the start: its   *)
(* version, the order in which generateCertificateRequest checks keys and  *)
(* the EEK, whether the device trusts the Google EEK root (GMS), which    *)
(* IKeyMintDevice instances the device declares, and a set of at most      *)
(* MaxDefects defects, each a way of breaking the contract the tests'      *)
(* comments state.  Whether gtest is told to also run the DISABLED_ tests  *)
(* is chosen at the start too.                                             *)
(***************************************************************************)
EXTENDS Integers, Sequences, FiniteSets

CONSTANTS
  Versions,       \* RpcHardwareInfo.versionNumber values of the HAL
  OtherVersions,  \* versions of the other registered instance
  ProdEekLength,  \* entries of getProdEekChain()
  MinKeysInCsr,   \* RpcHardwareInfo::MIN_SUPPORTED_NUM_KEYS_IN_CSR, scaled
  MaxDefects      \* bound on the defects of one HAL

ASSUME Versions \subseteq 1..3 /\ OtherVersions \subseteq 1..3
ASSUME ProdEekLength >= 1 /\ MinKeysInCsr >= 2 /\ MaxDefects >= 0

VERSION_WITH_UNIQUE_ID_SUPPORT == 2
VERSION_WITHOUT_TEST_MODE == 3

\* Defects a HAL of any version may have, of v1/v2 only (the v1 CSR API),
\* and of v3 only (the v2 CSR API).
CommonDefects ==
  {"hwInfoFails", "uidPresence", "uidEmpty", "uidTooLong", "uidShared",
   "badCurve", "genKeyFails", "markerInverted", "attestFails", "skipMacCheck"}
V1Defects ==
  {"skipModeCheck", "skipEekCheck", "shortEekOnly", "badProtectedData",
   "bccReused"}
V3Defects ==
  {"fewKeysInCsr", "csrCapacityShort", "v1NotRemoved", "badCsr",
   "csrNotReproducible"}
DefectsOf(v) ==
  CommonDefects \cup IF v >= VERSION_WITHOUT_TEST_MODE THEN V3Defects ELSE V1Defects

\* AIDL instance names "<descriptor>/<instance>", as the sequence of the
\* parts around the first '/'.  The instance under test is ".../default";
\* KeyMint may declare a "default" and a "strongbox" instance.
RpName == <<"IRemotelyProvisionedComponent", "default">>
KmInstances == {"default", "strongbox"}
KmName(i) == <<"IKeyMintDevice", i>>

Hals ==
  UNION {{[version |-> v, order |-> o, gms |-> g, kms |-> k, defects |-> d] :
            o \in {"keysFirst", "eekFirst"}, g \in BOOLEAN, k \in SUBSET KmInstances,
            d \in {s \in SUBSET DefectsOf(v) : Cardinality(s) <= MaxDefects}} :
         v \in Versions}

\* The tests in file order; the two DISABLED_ tests run only when gtest is
\* given --gtest_also_run_disabled_tests.
Tests ==
  << "eachRpcHasAUniqueId", "supportsValidCurve", "uniqueId",
     "supportedNumKeysInCsr", "generateEcdsaP256Key_prodMode",
     "generateAndUseEcdsaP256Key_prodMode", "generateEcdsaP256Key_testMode",
     "EmptyRequest_testMode", "NewKeyPerCallInTestMode",
     "DISABLED_EmptyRequest_prodMode", "NonEmptyRequest_testMode",
     "DISABLED_NonEmptyRequest_prodMode", "NonEmptyRequestCorruptMac_testMode",
     "NonEmptyRequestCorruptMac_prodMode", "NonEmptyCorruptEekRequest_prodMode",
     "NonEmptyIncompleteEekRequest_prodMode", "NonEmptyRequest_prodKeyInTestCert",
     "NonEmptyRequest_testKeyInProdCert", "EmptyRequest",
     "NonEmptyRequest", "NonEmptyRequestReproducible",
     "NonEmptyRequestMultipleKeys", "NonEmptyRequestCorruptMac",
     "V2_NonEmptyRequest_testKeyInProdCert", "CertificateRequestV1Removed" >>

VARIABLES
  hal,      \* the instance under test
  other,    \* versionNumber of the other registered instance
  next,     \* index in Tests of the next test to run
  verdict,  \* test name -> "notrun" | "pass" | "fail" | "skip" | "disabled"
  alsoRunDisabled  \* --gtest_also_run_disabled_tests was given

vars == <<hal, other, next, verdict, alsoRunDisabled>>

Has(d) == d \in hal.defects

(* ----------------------------- the HAL ------------------------------- *)

\* getHardwareInfo's optional uniqueId: whether it is present, its size and
\* its value.  A conforming instance of version >= 2 has one of 1..32 bytes
\* distinct from every other instance's.
HalUniqueId ==
  [present |-> (hal.version >= VERSION_WITH_UNIQUE_ID_SUPPORT) # Has("uidPresence"),
   size    |-> CASE Has("uidEmpty") -> 0 [] Has("uidTooLong") -> 33 [] OTHER -> 16,
   value   |-> IF Has("uidShared") THEN "u2" ELSE "u1"]
OtherUniqueId ==
  [present |-> other >= VERSION_WITH_UNIQUE_ID_SUPPORT, size |-> 16, value |-> "u2"]

SupportedNumKeysInCsr == IF Has("fewKeysInCsr") THEN MinKeysInCsr - 1 ELSE MinKeysInCsr

\* generateEcdsaP256KeyPair(testMode): a v1/v2 key carries the test marker
\* exactly in test mode; v3 ignores test mode.
generateEcdsaP256KeyPair(testMode) ==
  [ok  |-> ~Has("genKeyFails"),
   key |-> [marked |-> (testMode /\ hal.version < VERSION_WITHOUT_TEST_MODE)
                         # Has("markerInverted"),
            macOk  |-> TRUE]]

\* Whether the EEK chain is valid for a request in this mode: intact and
\* complete, and in production mode rooted at a Google root the device trusts.
EekValid(testMode, chain) ==
  /\ ~chain.corrupt /\ chain.complete
  /\ testMode \/ (chain.root = "prod" /\ hal.gms)

KeysError(testMode, keys) ==
  CASE \E i \in DOMAIN keys : ~keys[i].macOk /\ ~Has("skipMacCheck") -> "INVALID_MAC"
    [] testMode /\ \E i \in DOMAIN keys : ~keys[i].marked /\ ~Has("skipModeCheck")
         -> "PRODUCTION_KEY_IN_TEST_REQUEST"
    [] ~testMode /\ \E i \in DOMAIN keys : keys[i].marked /\ ~Has("skipModeCheck")
         -> "TEST_KEY_IN_PRODUCTION_REQUEST"
    [] OTHER -> "OK"

EekError(testMode, chain) ==
  IF Has("skipEekCheck")
     \/ (EekValid(testMode, chain) /\ (chain.length <= 3 \/ ~Has("shortEekOnly")))
  THEN "OK" ELSE "INVALID_EEK"

\* generateCertificateRequest: removed in v3; in v1/v2 the first error of
\* the checks in the HAL's order.
generateCertificateRequest(testMode, keys, chain) ==
  IF hal.version >= VERSION_WITHOUT_TEST_MODE
  THEN IF Has("v1NotRemoved") THEN "OK" ELSE "REMOVED"
  ELSE LET k == KeysError(testMode, keys)
           e == EekError(testMode, chain)
       IN  IF hal.order = "keysFirst" THEN (IF k # "OK" THEN k ELSE e)
                                      ELSE (IF e # "OK" THEN e ELSE k)

\* generateCertificateRequestV2 (v3).
generateCertificateRequestV2(keys) ==
  CASE \E i \in DOMAIN keys : ~keys[i].macOk /\ ~Has("skipMacCheck") -> "INVALID_MAC"
    [] Has("csrCapacityShort") /\ Len(keys) >= SupportedNumKeysInCsr -> "FAILED"
    [] OTHER -> "OK"

(* ---------------------------- the tests ------------------------------ *)

\* device_suffix(name): what follows the first '/', or the whole name.
device_suffix(name) == IF Len(name) = 1 THEN name[1] ELSE name[2]

\* AServiceManager_isDeclared and getAidlHalInstanceNames both read the
\* VINTF manifest.
KmNames == {KmName(i) : i \in hal.kms}
AServiceManager_isDeclared(name) == name \in KmNames

\* matching_keymint_device(rp_name): some listed KeyMint instance has the
\* suffix of the RemotelyProvisionedComponent instance and is declared.
matching_keymint_device(rp_name) ==
  \E km \in KmNames :
    device_suffix(km) = device_suffix(rp_name) /\ AServiceManager_isDeclared(km)

\* VtsRemotelyProvisionedComponentTests::SetUp: the service is declared and
\* getHardwareInfo succeeds; rpcHardwareInfo then gates the tests.
FixtureSetUp == ~Has("hwInfoFails")

\* check_maced_pubkey (KeyMintAidlTestBase, not in the repository): the MAC
\* parses and the test-key marker is what the mode asks for.
check_maced_pubkey(key, testMode) == key.macOk /\ key.marked = testMode

\* Mutant: v3 is still checked in the requested mode.
checkMacedPubkeyVersionedAbove(key, testMode) ==
  IF hal.version > VERSION_WITHOUT_TEST_MODE
  THEN check_maced_pubkey(key, FALSE)
  ELSE check_maced_pubkey(key, testMode)

checkMacedPubkeyVersioned(key, testMode) ==
  IF hal.version >= VERSION_WITHOUT_TEST_MODE
  THEN check_maced_pubkey(key, FALSE)
  ELSE check_maced_pubkey(key, testMode)

\* A default-constructed MacedPublicKey: it does not parse.
EmptyKey == [marked |-> FALSE, macOk |-> FALSE]

\* generateKeys(testMode, numKeys): keysToSign_ holds numKeys default keys;
\* each is generated and checked.  A failed generation ASSERTs out of the
\* helper only, leaving the remaining keys default, and the test goes on.
generateKeys(testMode, numKeys) ==
  LET g == generateEcdsaP256KeyPair(testMode)
  IN  [ok   |-> g.ok /\ checkMacedPubkeyVersioned(g.key, testMode),
       keys |-> [i \in 1..numKeys |-> IF g.ok THEN g.key ELSE EmptyKey]]

\* corrupt_maced_key: flips tag bits of a key that parses.
corrupt_maced_key(key) == [ok |-> key # EmptyKey, key |-> [key EXCEPT !.macOk = FALSE]]

\* generateTestEekChain(eekLength) and getProdEekChain().
TestEekChain(len) == [root |-> "test", length |-> len, corrupt |-> FALSE, complete |-> TRUE]
ProdEekChain == [root |-> "prod", length |-> ProdEekLength, corrupt |-> FALSE, complete |-> TRUE]

\* corrupt_sig_chain(chain, which): corrupts the signature of entry which.
corrupt_sig_chain(chain, which) ==
  [ok |-> which < chain.length, chain |-> [chain EXCEPT !.corrupt = TRUE]]

\* The prod chain without its first, self-signed, entry.
TruncatedProdChain == [ProdEekChain EXCEPT !.length = @ - 1, !.complete = FALSE]

\* verifyProductionProtectedData / verifyProductionCsr succeed.
ProtectedDataOk == ~Has("badProtectedData")
CsrOk == ~Has("badCsr")

eachRpcHasAUniqueId ==
  /\ ~Has("hwInfoFails")
  /\ IF hal.version >= VERSION_WITH_UNIQUE_ID_SUPPORT
     THEN /\ HalUniqueId.present
          /\ other >= VERSION_WITH_UNIQUE_ID_SUPPORT => HalUniqueId.value # OtherUniqueId.value
     ELSE ~HalUniqueId.present

supportsValidCurve == ~Has("badCurve")

\* Mutant: the early return also taken at VERSION_WITH_UNIQUE_ID_SUPPORT.
uniqueIdTestGateInclusive ==
  hal.version <= VERSION_WITH_UNIQUE_ID_SUPPORT
  \/ (HalUniqueId.present /\ HalUniqueId.size >= 1 /\ HalUniqueId.size <= 32)

\* Returns early, passing, below VERSION_WITH_UNIQUE_ID_SUPPORT.
uniqueIdTest ==
  hal.version < VERSION_WITH_UNIQUE_ID_SUPPORT
  \/ (HalUniqueId.present /\ HalUniqueId.size >= 1 /\ HalUniqueId.size <= 32)

supportedNumKeysInCsrTest ==
  hal.version < VERSION_WITHOUT_TEST_MODE \/ SupportedNumKeysInCsr >= MinKeysInCsr

generateKeyTest(testMode) ==
  LET g == generateEcdsaP256KeyPair(testMode)
  IN  g.ok /\ checkMacedPubkeyVersioned(g.key, testMode)

generateAndUseEcdsaP256Key_prodMode == generateKeyTest(FALSE) /\ ~Has("attestFails")

\* DISABLED_EmptyRequest_prodMode and DISABLED_NonEmptyRequest_prodMode:
\* EXPECT_TRUE(status.isOk()) for a production request over getProdEekChain.
EmptyRequest_prodMode == generateCertificateRequest(FALSE, <<>>, ProdEekChain) = "OK"

NonEmptyRequest_prodMode ==
  LET gk == generateKeys(FALSE, 4)
  IN  gk.ok /\ generateCertificateRequest(FALSE, gk.keys, ProdEekChain) = "OK"

EmptyRequest_testMode ==
  \A len \in {2, 3, 7} :
    generateCertificateRequest(TRUE, <<>>, TestEekChain(len)) = "OK" /\ ProtectedDataOk

\* Two requests, each verified; the BCC keys of the second are new.
NewKeyPerCallInTestMode ==
  /\ generateCertificateRequest(TRUE, <<>>, TestEekChain(3)) = "OK"
  /\ ProtectedDataOk
  /\ ~Has("bccReused")

NonEmptyRequest_testMode ==
  LET gk == generateKeys(TRUE, 4)
  IN  /\ gk.ok
      /\ \A len \in {2, 3, 7} :
           generateCertificateRequest(TRUE, gk.keys, TestEekChain(len)) = "OK" /\ ProtectedDataOk

\* A request with one key whose MAC is corrupted fails with INVALID_MAC.
CorruptMacTest(testMode, chain) ==
  LET gk == generateKeys(testMode, 1)
      c  == corrupt_maced_key(gk.keys[1])
  IN  gk.ok /\ c.ok /\ generateCertificateRequest(testMode, <<c.key>>, chain) = "INVALID_MAC"

NonEmptyCorruptEekRequest_prodMode ==
  LET gk == generateKeys(FALSE, 4)
  IN  /\ gk.ok
      /\ \A ii \in 0..(ProdEekLength - 1) :
           LET c == corrupt_sig_chain(ProdEekChain, ii)
           IN  c.ok /\ generateCertificateRequest(FALSE, gk.keys, c.chain) = "INVALID_EEK"

NonEmptyIncompleteEekRequest_prodMode ==
  LET gk == generateKeys(FALSE, 4)
  IN  gk.ok /\ generateCertificateRequest(FALSE, gk.keys, TruncatedProdChain) = "INVALID_EEK"

\* Keys of one mode in a request of the other, over a test EEK chain.
MixedModeTest(keyMode, requestMode, expected) ==
  LET gk == generateKeys(keyMode, 2)
  IN  gk.ok /\ generateCertificateRequest(requestMode, gk.keys, TestEekChain(3)) = expected

CsrV2Test(testMode, numKeys) ==
  LET gk == generateKeys(testMode, numKeys)
  IN  gk.ok /\ generateCertificateRequestV2(gk.keys) = "OK" /\ CsrOk

NonEmptyRequestCorruptMacV2 ==
  LET gk == generateKeys(FALSE, 1)
      c  == corrupt_maced_key(gk.keys[1])
  IN  gk.ok /\ c.ok /\ generateCertificateRequestV2(<<c.key>>) = "INVALID_MAC"

EmptyRequestV2 == generateCertificateRequestV2(<<>>) = "OK" /\ CsrOk

\* Test mode is ignored from v3: test keys are accepted.
NonEmptyRequest_testKeyInProdCertV2 ==
  LET gk == generateKeys(TRUE, 1)
  IN  gk.ok /\ generateCertificateRequestV2(gk.keys) = "OK"

CertificateRequestV1Removed ==
  generateCertificateRequest(TRUE, <<>>, TestEekChain(2)) = "REMOVED"

\* What the body of each test asserts.
Body(t) ==
  CASE t = "supportsValidCurve" -> supportsValidCurve
    [] t = "uniqueId" -> uniqueIdTest
    [] t = "supportedNumKeysInCsr" -> supportedNumKeysInCsrTest
    [] t = "generateEcdsaP256Key_prodMode" -> generateKeyTest(FALSE)
    [] t = "generateAndUseEcdsaP256Key_prodMode" -> generateAndUseEcdsaP256Key_prodMode
    [] t = "generateEcdsaP256Key_testMode" -> generateKeyTest(TRUE)
    [] t = "EmptyRequest_testMode" -> EmptyRequest_testMode
    [] t = "NewKeyPerCallInTestMode" -> NewKeyPerCallInTestMode
    [] t = "DISABLED_EmptyRequest_prodMode" -> EmptyRequest_prodMode
    [] t = "NonEmptyRequest_testMode" -> NonEmptyRequest_testMode
    [] t = "DISABLED_NonEmptyRequest_prodMode" -> NonEmptyRequest_prodMode
    [] t = "NonEmptyRequestCorruptMac_testMode" -> CorruptMacTest(TRUE, TestEekChain(3))
    [] t = "NonEmptyRequestCorruptMac_prodMode" -> CorruptMacTest(FALSE, ProdEekChain)
    [] t = "NonEmptyCorruptEekRequest_prodMode" -> NonEmptyCorruptEekRequest_prodMode
    [] t = "NonEmptyIncompleteEekRequest_prodMode" -> NonEmptyIncompleteEekRequest_prodMode
    [] t = "NonEmptyRequest_prodKeyInTestCert" ->
         MixedModeTest(FALSE, TRUE, "PRODUCTION_KEY_IN_TEST_REQUEST")
    [] t = "NonEmptyRequest_testKeyInProdCert" ->
         MixedModeTest(TRUE, FALSE, "TEST_KEY_IN_PRODUCTION_REQUEST")
    [] t = "EmptyRequest" -> EmptyRequestV2
    [] t = "NonEmptyRequest" -> CsrV2Test(FALSE, 1)
    [] t = "NonEmptyRequestReproducible" -> CsrV2Test(FALSE, 1) /\ ~Has("csrNotReproducible")
    [] t = "NonEmptyRequestMultipleKeys" -> CsrV2Test(FALSE, SupportedNumKeysInCsr)
    [] t = "NonEmptyRequestCorruptMac" -> NonEmptyRequestCorruptMacV2
    \* CertificateRequestV2Test.NonEmptyRequest_testKeyInProdCert
    [] t = "V2_NonEmptyRequest_testKeyInProdCert" -> NonEmptyRequest_testKeyInProdCertV2
    [] t = "CertificateRequestV1Removed" -> CertificateRequestV1Removed

CertificateRequestTests ==
  {Tests[i] : i \in 8..18}
CertificateRequestV2Tests ==
  {Tests[i] : i \in 19..25}
DisabledTests == {"DISABLED_EmptyRequest_prodMode", "DISABLED_NonEmptyRequest_prodMode"}

\* GTEST_SKIP: in the SetUp of the two CSR fixtures by version, and in
\* generateAndUseEcdsaP256Key_prodMode without a matching KeyMint device.
Skipped(t) ==
  \/ t \in CertificateRequestTests /\ hal.version >= VERSION_WITHOUT_TEST_MODE
  \/ t \in CertificateRequestV2Tests /\ hal.version < VERSION_WITHOUT_TEST_MODE
  \/ t = "generateAndUseEcdsaP256Key_prodMode" /\ ~matching_keymint_device(RpName)

\* gtest does not run a DISABLED_ test unless told to; a fatal failure in
\* SetUp fails the test and its body does not run.
Verdict(t) ==
  CASE t \in DisabledTests /\ ~alsoRunDisabled -> "disabled"
    [] t = "eachRpcHasAUniqueId" -> IF eachRpcHasAUniqueId THEN "pass" ELSE "fail"
    [] ~FixtureSetUp -> "fail"
    [] Skipped(t) -> "skip"
    [] Body(t) -> "pass"
    [] OTHER -> "fail"

Init ==
  /\ hal \in Hals
  /\ other \in OtherVersions
  /\ alsoRunDisabled \in BOOLEAN
  /\ next = 1
  /\ verdict = [t \in {Tests[i] : i \in 1..Len(Tests)} |-> "notrun"]

\* gtest runs the next test with a fresh fixture.
RunTest ==
  /\ next <= Len(Tests)
  /\ verdict' = [verdict EXCEPT ![Tests[next]] = Verdict(Tests[next])]
  /\ next' = next + 1
  /\ UNCHANGED <<hal, other, alsoRunDisabled>>

Next == RunTest

Spec == Init /\ [][Next]_vars

(* --------------------------- properties ------------------------------ *)

Finished == next > Len(Tests)
SuitePassed == \A t \in DOMAIN verdict : verdict[t] \in {"pass", "skip", "disabled"}

\* The defects that show in the HAL's behaviour: a shared unique id only
\* when both instances report one, a size only of a reported id, a failing
\* attestation only with a matching KeyMint device.
Violations ==
  {d \in hal.defects :
     CASE d = "uidShared" -> HalUniqueId.present /\ OtherUniqueId.present
       [] d \in {"uidEmpty", "uidTooLong"} -> HalUniqueId.present
       [] d = "attestFails" -> matching_keymint_device(RpName)
       [] OTHER -> TRUE}

\* When the suite has run and every test passed or was skipped, the HAL
\* breaks no clause of the contract the tests state, whatever the two
\* defects are: each clause is checked by a test the version gates of
\* SetUp, uniqueId and supportedNumKeysInCsr let run, and no defect hides
\* another (a failed generateKeys leaves default keys and the test goes on).
SuiteSound == Finished /\ SuitePassed => Violations = {}

\* A HAL that breaks no clause passes the suite exactly when it is v3 or
\* checks the keys of a generateCertificateRequest before the EEK chain:
\* NonEmptyRequest_testKeyInProdCert sends test keys in a production request
\* over a test EEK chain, which a production request must reject as
\* INVALID_EEK, and accepts only TEST_KEY_IN_PRODUCTION_REQUEST.  When the
\* DISABLED_ tests are run, a v1/v2 device must in addition trust the Google
\* EEK root, the reason their comments give for disabling them.
ConformingVerdict ==
  Finished /\ Violations = {} =>
    (SuitePassed <=>
       \/ hal.version >= VERSION_WITHOUT_TEST_MODE
       \/ hal.order = "keysFirst" /\ (~alsoRunDisabled \/ hal.gms))

=============================================================================
