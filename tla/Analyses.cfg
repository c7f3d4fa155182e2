SPECIFICATION VerdictsSpec
CONSTANTS
  change = change
  branch = branch
  h1 = h1
  h2 = h2
  secret = secret
  audit = audit
  ci = ci
  key = key
  advisory = advisory
  Subject = {change, branch}
  CommitSha = {h1, h2}
  Analyzers <- MCAnalyzers
  CI_CHECKS = ci
  PACKAGE_AUDIT = audit
  Fingerprint = {key, advisory}
  Analyzer <- MCAnalyzer
  Severity <- MCSeverity
  Pages = {2}
  MaxSnapshots = 3
  MaxRuns = 3
  MaxListings = 1
CONSTRAINTS FewRows ReadOrTold
SYMMETRY Alike
INVARIANTS PagingSkipsNothing RunsShownWhole IssuesFollowFindings OutrunOnlyByAudits
CHECK_DEADLOCK FALSE
