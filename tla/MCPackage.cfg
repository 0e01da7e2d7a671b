SPECIFICATION MCSpec
CONSTANTS
  Word <- Words
  Empty = Empty
  ValidIDs = {"sample", "other", "catalog"}
  KnownCapabilities = {"kafka.read"}
  SecretHints = {"apiKey"}
  reservedExtensionIDs = {"catalog"}
  reservedSubPaths = {"health"}
  Manifests <- SomeManifests
  Handlers <- SomeHandlers
  Texts <- AllTexts
  Operators <- AllOperators
  Constraints <- AllConstraints
  Garbage = {"garbage"}
  Letter <- Letters
  Escaped <- Digits
  Identities <- SomeIdentities
  MaxEmbeddingInputs = 2
  MaxEmbeddingInputBytes = 2
  MaxEmbeddingTotalInputBytes = 3
  MaxEmbeddingDimensions = 2
  NonFinite = NonFinite
  Exchanges <- Exchanging
INVARIANTS
  MenusStayShallow
  StaysInNamespace
  SanitizedHidesSecrets
  RangeIsConjunction
  IdentitySurvivesHeaders
  EmbeddingsAnswerInputs
  RunningWasVerified
  ReportIsHonest
PROPERTIES
  StopsWhatStarted
  CheckReturns
