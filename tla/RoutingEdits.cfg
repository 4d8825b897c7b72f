SPECIFICATION Spec
CONSTANTS
  r1 = r1
  r2 = r2
  r3 = r3
  c1 = c1
  c2 = c2
  plan = plan
  build = build
  work = work
  Routes = {r1, r2, r3}
  Conns = {c1, c2}
  ConnOf <- MCConnOf
  Actions = {plan, build}
  Types = {work}
  TypeOf <- MCTypeOf
  Grades = {"weak", "full"}
  Meets <- MCMeets
  Offers <- MCOffers
  BootRoute = r1
  Fragile = {c2}
  MaxLaunches = 2
  Inherit = Inherit
  Unset = Unset
INVARIANTS PolicyStaysValid SearchFindsCycles DanglingOverrideIsExplained
PROPERTIES EditLeavesAllResolvable GlobalIsTheOperators
CHECK_DEADLOCK FALSE
