CONSTANTS
  home = home
  partner = partner
  stranger = stranger
  Sites = {home, partner, stranger}
  Home = home
  Allowed = {home, partner}
  NoSite = NoSite
SPECIFICATION Spec
INVARIANTS
  TypeOK
  ConfigurationIsChecked
  UnavailableIsExhausted
