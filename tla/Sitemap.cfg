SPECIFICATION Spec
CONSTANTS
  main = main  news = news  blog = blog
  Doc <- ThreeDocs
  Fallback = main
  Setting <- Settings
  MaxBody = 2
INVARIANTS EachDocumentOnce FindsEverything OvershootIsOneDocument
