SPECIFICATION Spec
CONSTANT Keys <- MCKeys
CONSTANT Selectors = 2
CONSTANT Lists <- MCLists
CONSTANT MailIps <- MCMailIps
CONSTANT MaxListed = 3
CONSTANT Domains = {"self", "a", "b"}
CONSTANT Records <- MCRecords
CONSTANT Limit = 3
CONSTANT RepSelectors = 2
CONSTANT Logos <- MCLogos
CONSTANT Marks <- MCMarks
CONSTANT Formats = {"csv", "html"}
CONSTANT Names <- MCNames
CONSTANT Tld = "com"
CONSTANT Tlds = {"com", "net"}
CONSTANT Homoglyphs <- MCHomoglyphs
CONSTANT BrandSuffixes = {"-pay"}
CONSTANT DashLimit = 3
CONSTANT EditLimit = 4
CONSTANT CertLists <- MCCertLists
CONSTANT Lookback = 2
CONSTANT MaxAnswers = 2
CONSTANT MaxItems = 1
INVARIANT TypeOK
INVARIANT ScoreIsEarned
INVARIANT SubdomainPolicyIsJudged
INVARIANT OverLimitIsReal
INVARIANT JudgesAgree
INVARIANT BimiValidIsEarned
INVARIANT LookalikesAreAnswered
INVARIANT ExportsAgree
