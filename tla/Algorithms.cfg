SPECIFICATION Spec
CONSTANTS
  Spellings <- Spelt
  UrlCases <- Urls1
  PageCases <- Pages1
  MapCases <- Maps1
  SpecCases <- Specs1
  EventCases <- Events1
  StreamCases <- Streams
  ArgsCases <- ArgLists
  LoginCases <- Accounts
  SiteCases <- Sites1
  SampleCases <- Samples1
  Goroutine = {"one", "two", "main"}
  Main = "main"
  Buffer = {b1, b2}
  MaxLines = 2
INVARIANTS NormalFormIsCanonical LinksStayOnTheirHost FollowedIsInScope SourcesUnderTheirPaths FirstSpecIsRead EncodingMatchesMarshal RecordsAreWhole ArgsKeepTheirMeaning  OracleFollowsEngine StatisticsMatchDefinitions
