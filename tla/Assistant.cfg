SPECIFICATION Spec
CONSTANTS
  Articles = {"x", "y"}
  RrfK = 60
  PerArticle = 1
  MaxRank = 3
  Corpus <- TwoBuilds
  Batch = 2
  Candidates = 2
  MaxPassages = 2
  Sentences = {{}, {1}, {2}}
  MaxSentences = 3
INVARIANTS
  TypeOK
  SameBuildSameChunks
  ArticleMapCoversOneBuild
  FusionRespectsLanes
  PassagesFit
  AnswerGrounded
  BannerInAnswers
PROPERTY AskAnswered
