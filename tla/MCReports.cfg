SPECIFICATION Spec
CONSTANTS
    scope = scope
    twin = twin
    rollup = rollup
    project = project
    all = all
    standup = standup
    hygiene = hygiene
    pi = pi
    polled = polled
    monthly = monthly
    page1 = page1
    NewPost = NewPost
    Human = Human
    ChangeReports = {scope, twin, rollup}
    CoverageKeys = {project, all}
    KeyOf <- MCKeyOf
    Briefings = {standup}
    HygieneTeams = {hygiene}
    PiTeams = {pi, polled}
    IntervalTeams = {polled}
    MonthlyReports = {monthly}
    Pages = {page1}
    PageOf <- MCPageOf
    HygieneDays = {1, 2, 3, 4, 5}
    BoundaryPhases = {1, 2}
    FirstDayOfWeek = 5
    DayOfMonth = 6
    UtcAhead = 1
    MaxLookbackDays = 4
    Deployments <- MCDeployments
    Horizon = 13
    MaxChanges = 1
    MaxEdits = 1
    MaxRuns = 1
    MaxLength = 1
    ByHand = {rollup, pi, monthly, hygiene}
    MaxCrashes = 1
    MaxFaults = 1
INVARIANTS TypeOK OncePerSlot NoGap OneAtATime GuardsHaveRuns MarksAreEarned
PROPERTIES CaughtUp PagesOnlyGrow
CHECK_DEADLOCK FALSE
